---------------------------- MODULE Spec2Model ----------------------------
(***************************************************************************)
(* A model of potato-nice-thelma: the frame parameter generator            *)
(* (ComputeFrameParams), the meme generator facade (Generate and           *)
(* GenerateRandom), the HTTP handler that drives them (handleMeme) and     *)
(* the potato source (RedditClient.SearchRandom).                          *)
(*                                                                         *)
(* Specifications: Spec (the generator on its own), SpecParams             *)
(* (ComputeFrameParams on its own), SpecServer (handleMeme with any        *)
(* meme.Generator), SpecWired (handleMeme with the MemeGenerator), SpecRun *)
(* (Generate under a caller's context, with the scheduler's fairness),     *)
(* SpecReddit (SearchRandom), SpecConc (two Generate invocations side by   *)
(* side), SpecFrames (ComputeFrameParams for animations of any length)     *)
(* and SpecHelpers (drawDivineGlow, drawStarburst and scaleHeight on       *)
(* their own).                                                             *)
(*                                                                         *)
(* Numbers.  float64 values are kept in fixed point, FP units to 1.0.      *)
(* Angles are kept exactly, as a rational number of turns, and only the    *)
(* final sine is rounded.  The math/rand/v2 PCG source is a library: it    *)
(* is modelled as a seeded linear congruential generator of reduced width  *)
(* (RngMod states) that keeps what the program relies on: the stream is a  *)
(* function of the two seeds alone, IntN(n) lies in 0..n-1 and panics for  *)
(* n <= 0, Float64 lies in [0,1).  The process-global source (rand.IntN)   *)
(* is seeded at random by the runtime: every draw is a free choice.        *)
(***************************************************************************)
EXTENDS Integers, Sequences, FiniteSets, TLC

VARIABLES
    gen,         \* the Generate / GenerateRandom invocation in progress
    globalRand,  \* the process-global random source: its position in its stream
    calls,       \* a ComputeFrameParams or helper call and, once made, its repetition
    srv,         \* the GET /meme request in progress (handleMeme)
    reddit,      \* the RedditClient.SearchRandom call in progress
    conc         \* Generate invocations running side by side on one MemeGenerator

vars == <<gen, globalRand, calls, srv, reddit, conc>>

(***************************************************************************)
(* Program constants.                                                      *)
(***************************************************************************)
TotalFrames == 16
FrameDelay == 8
canvasWidth == 640
canvasHeight == 480
fontSize == 48
topMargin == 40
bottomMargin == 440

\* potatoScale = 0.4, in thousandths
potatoScale == 400

(***************************************************************************)
(* Bounds of the model.                                                    *)
(***************************************************************************)
\* positions of the process-global random source told apart: 0..GlobalRandMax
GlobalRandMax == 2

(***************************************************************************)
(* Fixed point and the sine.                                               *)
(***************************************************************************)
FP == 10 * 1000
\* pi/2 in FP units
PiHalfFP == 15 * 1000 + 708

Abs(x) == IF x < 0 THEN -x ELSE x

\* x / y rounded to the nearest, for x of either sign and y > 0
RoundDiv(x, y) == IF x >= 0 THEN (2 * x + y) \div (2 * y)
                            ELSE -((2 * (-x) + y) \div (2 * y))

\* int(x) of Go for a float64 kept in FP units: truncation toward zero
TruncFP(x) == IF x >= 0 THEN x \div FP ELSE -((-x) \div FP)

\* sin of x radians (FP units), 0 <= x <= pi/2: the Taylor series to x^9
SinQuarter(x) ==
    LET x2 == RoundDiv(x * x, FP)
        t3 == RoundDiv(RoundDiv(x * x2, FP), 6)
        t5 == RoundDiv(RoundDiv(t3 * x2, FP), 20)
        t7 == RoundDiv(RoundDiv(t5 * x2, FP), 42)
        t9 == RoundDiv(RoundDiv(t7 * x2, FP), 72)
    IN  x - t3 + t5 - t7 + t9

\* math.Sin of num/den turns (den > 0), in FP units.  The angle is reduced
\* exactly; sin of a whole number of half turns is 0 (a float64 gives about
\* 1e-16 there, which every use below truncates or scales away) and sin of a
\* quarter turn is exactly 1.
SinTurns(num, den) ==
    LET a == (4 * num) % (4 * den)
        y == IF a <= den THEN a
             ELSE IF a <= 2 * den THEN 2 * den - a
             ELSE IF a <= 3 * den THEN a - 2 * den
             ELSE 4 * den - a
        s == IF a <= 2 * den THEN 1 ELSE -1
        v == IF y = den THEN FP ELSE SinQuarter(RoundDiv(PiHalfFP * y, den))
    IN  s * v

(***************************************************************************)
(* math/rand/v2: rand.New(rand.NewPCG(seed1, seed2)), IntN, Float64.       *)
(***************************************************************************)
RngMod == 256 * 256

\* uint64(x) of a Go int: two's complement wrap, here to the model's width
Uint(x) == x % 256

NewPCG(seed1, seed2) == Uint(seed1) * 256 + Uint(seed2)

\* one step of the generator's state
PCGNext(s) == (s * 25173 + 13849) % RngMod

\* the value drawn from a state: an output permutation of it (the low bits
\* of the state are the weak ones)
PCGOut(s) == ((s \div 256) * 257 + (s % 256) * 256) % RngMod

IsPow2(n) == n \in {1, 2, 4, 8, 16, 32, 64, 128, 256, 512, 1024}

RECURSIVE Uint32nLoop(_, _, _)
\* uint32n's rejection loop: draw until the low half of the product is
\* at least thresh
Uint32nLoop(s, n, thresh) ==
    LET s1 == PCGNext(s)
        prod == PCGOut(s1) * n
    IN  IF prod % RngMod < thresh THEN Uint32nLoop(s1, n, thresh)
        ELSE [v |-> prod \div RngMod, rng |-> s1, panic |-> FALSE]

\* (*Rand).IntN: panics for n <= 0; otherwise a value in 0..n-1 and the
\* generator advanced
IntN(s, n) ==
    IF n <= 0 THEN [v |-> 0, rng |-> s, panic |-> TRUE]
    ELSE IF IsPow2(n)
         THEN [v |-> PCGOut(PCGNext(s)) % n, rng |-> PCGNext(s), panic |-> FALSE]
         ELSE LET s1 == PCGNext(s)
                  prod == PCGOut(s1) * n
                  thresh == (RngMod - n) % n
              IN  IF prod % RngMod < n /\ prod % RngMod < thresh
                  THEN Uint32nLoop(s1, n, thresh)
                  ELSE [v |-> prod \div RngMod, rng |-> s1, panic |-> FALSE]

\* (*Rand).Float64: a value in [0, 1), in FP units
Float64(s) ==
    LET s1 == PCGNext(s)
    IN  [v |-> (PCGOut(s1) * FP) \div RngMod, rng |-> s1, panic |-> FALSE]


(***************************************************************************)
(* hslToRGB.  The hue is the exact rational hNum/hDen degrees; s and l are *)
(* in FP units.                                                            *)
(***************************************************************************)
hslToRGB(hNum, hDen, s, l) ==
    LET h == hNum % (360 * hDen)
        c == RoundDiv((FP - Abs(2 * l - FP)) * s, FP)
        x == RoundDiv(c * (60 * hDen - Abs((h % (120 * hDen)) - 60 * hDen)),
                      60 * hDen)
        m == l - c \div 2
        rgb == IF h < 60 * hDen THEN <<c, x, 0>>
               ELSE IF h < 120 * hDen THEN <<x, c, 0>>
               ELSE IF h < 180 * hDen THEN <<0, c, x>>
               ELSE IF h < 240 * hDen THEN <<0, x, c>>
               ELSE IF h < 300 * hDen THEN <<x, 0, c>>
               ELSE <<c, 0, x>>
    IN  [R |-> TruncFP((rgb[1] + m) * 255) % 256,
         G |-> TruncFP((rgb[2] + m) * 255) % 256,
         B |-> TruncFP((rgb[3] + m) * 255) % 256,
         A |-> 255]

(***************************************************************************)
(* ComputeFrameParams.                                                     *)
(***************************************************************************)
burstWords == <<"SPUD!", "WOW!", "TATER!", "POW!", "NICE!", "EPIC!", "YEET!",
                "BRUH!", "OMG!", "SPICY!">>

\* mutant: the generator is seeded from the process-global source as well
frameRNGGlobal(frame) == NewPCG(frame * 7919 + 1 + globalRand, frame * 6271)

\* the generator of the shake and the sparkles, seeded from the frame index
frameRNG(frame) == NewPCG(frame * 7919, frame * 6271)

\* the generator of the bursts, seeded from the frame index
burstRNG(frame) == NewPCG(frame * 4219 + 7, frame * 3137 + 13)

RECURSIVE SparkleLoop(_, _, _, _, _)
\* the loop that fills the sparkles: k more to draw from rng
SparkleLoop(rng, k, canvasW, canvasH, acc) ==
    IF k = 0 THEN [list |-> acc, rng |-> rng, panic |-> FALSE]
    ELSE LET x == IntN(rng, canvasW)
             y == IntN(x.rng, canvasH)
             sz == IntN(y.rng, 8)
             al == Float64(sz.rng)
         IN  IF x.panic \/ y.panic
             THEN [list |-> acc, rng |-> rng, panic |-> TRUE]
             ELSE SparkleLoop(al.rng, k - 1, canvasW, canvasH,
                     Append(acc, [X |-> x.v, Y |-> y.v, Size |-> 4 + sz.v,
                                  Alpha |-> FP \div 2 + al.v \div 2]))

\* mutant: the shake is left in 0..6
ShakeAndSparklesUncentred(frame, canvasW, canvasH) ==
    LET dx == IntN(frameRNG(frame), 7)
        dy == IntN(dx.rng, 7)
        n == IntN(dy.rng, 3)
        sp == SparkleLoop(n.rng, 6 + n.v, canvasW, canvasH, <<>>)
    IN  [ShakeDX |-> dx.v, ShakeDY |-> dy.v, Sparkles |-> sp.list,
         panic |-> sp.panic]

\* the shake offsets and the sparkles, all drawn from the frame's generator
ShakeAndSparkles(frame, canvasW, canvasH) ==
    LET dx == IntN(frameRNG(frame), 7)
        dy == IntN(dx.rng, 7)
        n == IntN(dy.rng, 3)
        sp == SparkleLoop(n.rng, 6 + n.v, canvasW, canvasH, <<>>)
    IN  [ShakeDX |-> dx.v - 3, ShakeDY |-> dy.v - 3, Sparkles |-> sp.list,
         panic |-> sp.panic]

\* the three clones: fixed anchors, phase-shifted bounce and rotation
Clones(frame, totalFrames, canvasW, canvasH) ==
    LET clonePositions == << <<60, 80>>, <<canvasW - 180, 60>>,
                             <<canvasW \div 2 - 50, canvasH - 90>> >>
    IN  [k \in 1..3 |->
            LET i == k - 1
                den == 30 * totalFrames
                bounceTurns == 3 * frame * (15 + 7 * i) + 10 * totalFrames * i
                rotTurns == 39 * frame + 10 * totalFrames * i
            IN  [X |-> clonePositions[k][1],
                 Y |-> clonePositions[k][2],
                 Scale |-> 150 + i * 50,
                 Rotation |-> RoundDiv(25 * SinTurns(rotTurns, den), 100),
                 BounceY |-> -TruncFP(Abs(SinTurns(bounceTurns, den)) * 25)]]

RECURSIVE BurstLoop(_, _, _, _, _, _)
\* the loop that fills the bursts: slots i..1 still to draw from rng
BurstLoop(rng, i, frame, canvasW, canvasH, acc) ==
    IF i = 2 THEN [list |-> acc, panic |-> FALSE]
    ELSE LET x == IntN(rng, canvasW - 160)
             y == IntN(x.rng, canvasH - 200)
             w == IntN(y.rng, Len(burstWords))
             rot == Float64(w.rng)
             sc == Float64(rot.rng)
         IN  IF x.panic \/ y.panic
             THEN [list |-> acc, panic |-> TRUE]
             ELSE BurstLoop(sc.rng, i + 1, frame, canvasW, canvasH,
                     Append(acc, [X |-> 80 + x.v, Y |-> 80 + y.v,
                                  Text |-> burstWords[w.v + 1],
                                  Rotation |-> (rot.v - FP \div 2) \div 2,
                                  Scale |-> 7 * (FP \div 10) + RoundDiv(6 * sc.v, 10),
                                  Visible |-> (frame + i) % 3 # 0]))

Bursts(frame, canvasW, canvasH) ==
    BurstLoop(burstRNG(frame), 0, frame, canvasW, canvasH, <<>>)

\* what a call that panicked leaves: no FrameParams value
Panicked == [panic |-> TRUE]

\* bounceHeight := 40.0
bounceHeight == 40

\* tickerSpeed := 40.0
tickerSpeed == 40

\* mutant: the position wrapped into the canvas
tickerXWrapped(frame, canvasW) == (canvasW - frame * tickerSpeed) % canvasW

\* tickerX := float64(canvasW) - float64(frame)*tickerSpeed
tickerX(frame, canvasW) == canvasW - frame * tickerSpeed

\* mutant: the bounce without math.Abs
potatoBounceYSigned(sinT) == -TruncFP(sinT * bounceHeight)

\* potatoBounceY := -int(math.Abs(math.Sin(2*math.Pi*t)) * bounceHeight),
\* from sin(2 pi t) in FP units
potatoBounceY(sinT) == -TruncFP(Abs(sinT) * bounceHeight)

\* ComputeFrameParams(frame, totalFrames, canvasW, canvasH): the FrameParams
\* of one frame, or Panicked when a generator is asked for IntN(n), n <= 0.
\* Floats are in FP units, Scale of a clone in thousandths, TickerX in pixels.
ComputeFrameParams(frame, totalFrames, canvasW, canvasH) ==
    LET sinT == SinTurns(frame, totalFrames)
        sinGlow == SinTurns(3 * frame, 2 * totalFrames)
        sinZoom == SinTurns(4 * frame, 5 * totalFrames)
        ss == ShakeAndSparkles(frame, canvasW, canvasH)
        bs == Bursts(frame, canvasW, canvasH)
    IN  IF ss.panic \/ bs.panic THEN Panicked
        ELSE [panic |-> FALSE,
              TextColor |-> hslToRGB(360 * frame, totalFrames, FP, 55 * (FP \div 100)),
              FontScale |-> FP + RoundDiv(15 * sinT, 100),
              PotatoBounceY |-> potatoBounceY(sinT),
              PotatoRotation |-> RoundDiv(17 * sinT, 100),
              ShakeDX |-> ss.ShakeDX,
              ShakeDY |-> ss.ShakeDY,
              Sparkles |-> ss.Sparkles,
              Clones |-> Clones(frame, totalFrames, canvasW, canvasH),
              GlowAlpha |-> 4 * (FP \div 10) + RoundDiv(2 * sinGlow, 10),
              GlowRadius |-> 120 + TruncFP(20 * sinGlow),
              TickerX |-> tickerX(frame, canvasW),
              ZoomScale |-> FP + RoundDiv(4 * (FP + sinZoom), 100),
              SpiralAngle |-> RoundDiv(2 * PiHalfFP * frame, totalFrames),
              Bursts |-> bs.list]

(***************************************************************************)
(* Images, texts and the built-in lists.  An image is its nil-ness and its *)
(* bounds; a text is its string and whether strings.ToUpper went over it.  *)
(***************************************************************************)
NilImage == [nil |-> TRUE, w |-> 0, h |-> 0]
Img(w, h) == [nil |-> FALSE, w |-> w, h |-> h]

Text(str) == [s |-> str, upper |-> FALSE]
ToUpper(t) == [t EXCEPT !.upper = TRUE]
NoText == Text("")

memeTexts == <<
    [Top |-> "when u a potato", Bottom |-> "but also a cat person"],
    [Top |-> "i can haz", Bottom |-> "potato?"],
    [Top |-> "tater tot", Bottom |-> "reporting for duty"],
    [Top |-> "am not cat", Bottom |-> "am potato"],
    [Top |-> "potato cat", Bottom |-> "the hero we deserve"],
    [Top |-> "one does not simply", Bottom |-> "combine potatoes and cats"],
    [Top |-> "they told me i could be anything", Bottom |-> "so i became a potato cat"],
    [Top |-> "this is fine", Bottom |-> "everything is potato"],
    [Top |-> "cat.exe has stopped working", Bottom |-> "potato.dll loaded instead"],
    [Top |-> "when the catnip hits", Bottom |-> "and you become a potato"],
    [Top |-> "i showed you my potato", Bottom |-> "please respond"],
    [Top |-> "therapist: potato cat isn't real", Bottom |-> "potato cat:"],
    [Top |-> "nobody:", Bottom |-> "potato cat at 3am:"],
    [Top |-> "me: i'm a normal person", Bottom |-> "also me:"],
    [Top |-> "the last thing you see", Bottom |-> "before you get mashed"],
    [Top |-> "you've been visited by", Bottom |-> "the sacred potato cat"],
    [Top |-> "this image is cursed", Bottom |-> "you're welcome"],
    [Top |-> "mom can we have a cat", Bottom |-> "we have a cat at home. the cat at home:"],
    [Top |-> "roses are red", Bottom |-> "potatoes are brown. this meme is cursed. please sit down"],
    [Top |-> "i have achieved", Bottom |-> "peak internet"],
    [Top |-> "delete this", Bottom |-> "nephew"],
    [Top |-> "what in tarnation", Bottom |-> "is this abomination"],
    [Top |-> "thanks i hate it", Bottom |-> "potato cat forever"],
    [Top |-> "it's not a phase mom", Bottom |-> "i'm a potato cat now"],
    [Top |-> "the prophecy is true", Bottom |-> "the potato cat has risen"] >>

tickerMessages == <<
    "BREAKING: LOCAL POTATO ACHIEVES SENTIENCE, DEMANDS BELLY RUBS",
    "ALERT: SCIENTISTS CONFIRM CATS ARE 47% POTATO ON A MOLECULAR LEVEL",
    "DEVELOPING: POTATO-CAT HYBRID ESCAPES LAB, LAST SEEN HEADING TOWARD COUCH",
    "URGENT: WORLD POTATO SUPPLY NOW CONTROLLED BY CATS",
    "LIVE: POTATO ELECTED MAYOR OF INTERNET, CATS DEMAND RECOUNT",
    "THIS JUST IN: YOUR SCREEN IS NOW 100% MORE POTATO THAN BEFORE",
    "EXCLUSIVE: AREA CAT REFUSES TO ACKNOWLEDGE POTATO ROOMMATE" >>

\* the images and texts a caller passes
PotatoInputs == {NilImage, Img(200, 200), Img(400, 200)}
CatInputs == {NilImage, Img(640, 480)}
TextInputs == {<<"top text", "bottom text">>, <<"a", "b">>}

(***************************************************************************)
(* scaleImage, scaleHeight.                                                *)
(***************************************************************************)
\* a fresh RGBA image of the given size holding src scaled
scaleImage(src, w, h) == Img(w, h)

\* mutant: the division made before the multiplication
scaleHeightDivFirst(src, targetW) ==
    IF src.w = 0 THEN targetW ELSE (targetW \div src.w) * src.h

\* targetW * srcH / srcW in int arithmetic; targetW for a source of width 0
scaleHeight(src, targetW) ==
    IF src.w = 0 THEN targetW ELSE (targetW * src.h) \div src.w

(***************************************************************************)
(* One invocation of Generate / GenerateRandom, as a record g.             *)
(***************************************************************************)
NoAnim == [nil |-> TRUE, Image |-> <<>>, Delay |-> <<>>, LoopCount |-> 0]
NoParams == [unset |-> TRUE]
NoCanvas == [nil |-> TRUE, w |-> 0, h |-> 0, layers |-> <<>>]
NoResult == [returned |-> FALSE, anim |-> NoAnim, err |-> ""]

IdleGen ==
    [pc |-> "idle", entry |-> "none",
     potatoImg |-> NilImage, catImg |-> NilImage,
     topText |-> NoText, bottomText |-> NoText, pair |-> 0,
     scaledCat |-> NilImage, scaledPotato |-> NilImage,
     potatoW |-> 0, potatoH |-> 0, potatoBaseX |-> 0, potatoBaseY |-> 0,
     topTextUpper |-> NoText, bottomTextUpper |-> NoText,
     tickerMsg |-> "", anim |-> NoAnim, i |-> 0, iterations |-> 0,
     params |-> NoParams, dc |-> NoCanvas, result |-> NoResult]

\* entry to Generate with its four arguments
EnterGenerate(potatoImg, catImg, topText, bottomText) ==
    [IdleGen EXCEPT !.pc = "validate", !.entry = "Generate",
                    !.potatoImg = potatoImg, !.catImg = catImg,
                    !.topText = topText, !.bottomText = bottomText]

\* mutant: the bottom text is taken from the entry after the drawn one
RandomPairMixed(k) == [Top |-> Text(memeTexts[k + 1].Top),
                       Bottom |-> Text(memeTexts[((k + 1) % Len(memeTexts)) + 1].Bottom)]

\* the texts GenerateRandom passes on for the index k that rand.IntN drew
RandomPair(k) == [Top |-> Text(memeTexts[k + 1].Top),
                  Bottom |-> Text(memeTexts[k + 1].Bottom)]

\* GenerateRandom: the pair for the drawn index k, then Generate
EnterGenerateRandom(potatoImg, catImg, k) ==
    [EnterGenerate(potatoImg, catImg, RandomPair(k).Top, RandomPair(k).Bottom)
        EXCEPT !.entry = "GenerateRandom", !.pair = k + 1]

\* mutant: the cat image is checked first
ValidationErrorCatFirst(potatoImg, catImg) ==
    IF catImg.nil THEN "cat image is required"
    ELSE IF potatoImg.nil THEN "potato image is required"
    ELSE ""

\* mutant: the two messages are swapped
ValidationErrorSwapped(potatoImg, catImg) ==
    IF potatoImg.nil THEN "cat image is required"
    ELSE IF catImg.nil THEN "potato image is required"
    ELSE ""

\* the nil checks: the message of the error returned, "" for none
ValidationError(potatoImg, catImg) ==
    IF potatoImg.nil THEN "potato image is required"
    ELSE IF catImg.nil THEN "cat image is required"
    ELSE ""

\* return (nil, err)
ReturnError(g, msg) ==
    [g EXCEPT !.pc = "done",
              !.result = [returned |-> TRUE, anim |-> NoAnim, err |-> msg]]

\* everything between the checks and the frame loop; k is the index that
\* rand.IntN(len(tickerMessages)) drew
Prescale(g, k) ==
    LET potatoW == (canvasWidth * potatoScale) \div 1000
        potatoH == scaleHeight(g.potatoImg, potatoW)
    IN  [g EXCEPT !.pc = "loop",
                  !.scaledCat = scaleImage(g.catImg, canvasWidth, canvasHeight),
                  !.potatoW = potatoW,
                  !.potatoH = potatoH,
                  !.scaledPotato = scaleImage(g.potatoImg, potatoW, potatoH),
                  !.potatoBaseX = canvasWidth - potatoW - 20,
                  !.potatoBaseY = canvasHeight - potatoH - 60,
                  !.topTextUpper = ToUpper(g.topText),
                  !.bottomTextUpper = ToUpper(g.bottomText),
                  !.tickerMsg = tickerMessages[k + 1],
                  !.anim = [nil |-> FALSE, Image |-> <<>>, Delay |-> <<>>,
                            LoopCount |-> 0],
                  !.i = 0]

\* mutant: the cat image is checked only after the potato has been scaled
ValidateLate(g) ==
    IF g.potatoImg.nil THEN ReturnError(g, "potato image is required")
    ELSE IF g.catImg.nil
         THEN ReturnError([g EXCEPT !.potatoW = Prescale(g, 0).potatoW,
                                    !.potatoH = Prescale(g, 0).potatoH,
                                    !.scaledPotato = Prescale(g, 0).scaledPotato],
                          "cat image is required")
         ELSE [g EXCEPT !.pc = "prescale"]

\* the two checks Generate starts with
Validate(g) ==
    IF ValidationError(g.potatoImg, g.catImg) # ""
    THEN ReturnError(g, ValidationError(g.potatoImg, g.catImg))
    ELSE [g EXCEPT !.pc = "prescale"]

\* mutant: the loop stops one frame early
LoopContinuesOneShort(i) == i < TotalFrames - 1

\* the condition of "for i := range TotalFrames"
LoopContinues(i) == i < TotalFrames

\* what ComputeFrameParams returns to Generate for each loop index: a pure
\* function of the index, tabulated once
GenerateParams ==
    [i \in 0..(TotalFrames - 1) |->
        ComputeFrameParams(i, TotalFrames, canvasWidth, canvasHeight)]

\* mutant: the frames are computed from the last index down
ParamsForReversed(i) == GenerateParams[TotalFrames - 1 - i]

\* the FrameParams of loop index i
ParamsFor(i) == GenerateParams[i]

\* gg.NewContext(w, h)
NewContext(w, h) == [nil |-> FALSE, w |-> w, h |-> h, layers |-> <<>>]

\* mutant: the loop gives up once the request's context is done
FrameStartCtx(g) ==
    IF srv.ctxDone
    THEN [g EXCEPT !.pc = "done",
                   !.result = [returned |-> TRUE, anim |-> NoAnim,
                               err |-> "context canceled"]]
    ELSE IF LoopContinues(g.i)
    THEN [g EXCEPT !.pc = "draw",
                   !.iterations = g.iterations + 1,
                   !.params = ParamsFor(g.i),
                   !.dc = NewContext(canvasWidth, canvasHeight)]
    ELSE [g EXCEPT !.pc = "done",
                   !.result = [returned |-> TRUE, anim |-> g.anim, err |-> ""]]

\* the loop head: the next frame's params and canvas, or return (anim, nil)
FrameStart(g) ==
    IF LoopContinues(g.i)
    THEN IF ParamsFor(g.i).panic
         THEN [g EXCEPT !.pc = "panic"]
         ELSE [g EXCEPT !.pc = "draw",
                        !.iterations = g.iterations + 1,
                        !.params = ParamsFor(g.i),
                        !.dc = NewContext(canvasWidth, canvasHeight)]
    ELSE [g EXCEPT !.pc = "done",
                   !.result = [returned |-> TRUE, anim |-> g.anim, err |-> ""]]

\* dc.MeasureString(message) with the 18-point face: the advance of the
\* message in pixels, here 10 for each of its characters
MeasureString(message) ==
    LET chars == <<61, 66, 73, 50, 59, 61, 58>>
        k == CHOOSE n \in 1..Len(tickerMessages) : tickerMessages[n] = message
    IN  10 * chars[k]

\* drawTicker(dc, f, message, tickerX): the banner, its accent line, the
\* message at tickerX and its wrapped copy
drawTicker(message, x) ==
    LET bannerHeight == 30
        bannerY == canvasHeight - bannerHeight
        textY == bannerY + bannerHeight \div 2
        w == MeasureString(message)
    IN  << [op |-> "DrawRectangle", args |-> <<0, bannerY, canvasWidth, bannerHeight>>],
           [op |-> "DrawRectangle", args |-> <<0, bannerY, canvasWidth, 2>>],
           [op |-> "DrawStringAnchored", args |-> <<message, x, textY>>],
           [op |-> "DrawStringAnchored", args |-> <<message, x + w + 100, textY>>] >>

\* mutant: every burst is drawn, visible or not
drawComicBurstsAll(bursts) == bursts

\* drawComicBursts draws the bursts whose Visible flag is set
drawComicBursts(bursts) == SelectSeq(bursts, LAMBDA b : b.Visible)

\* drawPotatoClones skips a clone scaled to less than a pixel
drawPotatoClones(potatoImg, clones) ==
    SelectSeq(clones, LAMBDA c :
        /\ (canvasWidth * c.Scale) \div 1000 >= 1
        /\ scaleHeight(potatoImg, (canvasWidth * c.Scale) \div 1000) >= 1)

\* mutant: the main potato is drawn before its glow
FrameLayersPotatoFirst(g) ==
    LET p == g.params
        potatoDrawX == g.potatoBaseX
        potatoDrawY == g.potatoBaseY + p.PotatoBounceY
        cx2 == 2 * potatoDrawX + g.potatoW
        cy2 == 2 * potatoDrawY + g.potatoH
    IN  << [op |-> "drawZoomedBackground",
            args |-> <<p.ZoomScale, p.ShakeDX, p.ShakeDY>>],
           [op |-> "drawHypnoWheel", args |-> <<p.SpiralAngle>>],
           [op |-> "DrawImage(scaledPotato)",
            args |-> <<potatoDrawX, potatoDrawY, p.PotatoRotation>>],
           [op |-> "drawDivineGlow",
            args |-> <<cx2, cy2, p.GlowRadius, p.GlowAlpha>>],
           [op |-> "drawPotatoClones",
            args |-> drawPotatoClones(g.potatoImg, p.Clones)],
           [op |-> "drawComicBursts", args |-> drawComicBursts(p.Bursts)],
           [op |-> "drawSparkle", args |-> p.Sparkles],
           [op |-> "drawMemeText",
            args |-> <<g.topTextUpper, topMargin, RoundDiv(fontSize * p.FontScale, FP), p.TextColor>>],
           [op |-> "drawMemeText",
            args |-> <<g.bottomTextUpper, bottomMargin, RoundDiv(fontSize * p.FontScale, FP), p.TextColor>>],
           [op |-> "drawTicker", args |-> <<g.tickerMsg, p.TickerX>>,
            draws |-> drawTicker(g.tickerMsg, p.TickerX)] >>

\* the drawing calls of one frame, back to front, with what each is given
\* (centre coordinates doubled, to stay whole)
FrameLayers(g) ==
    LET p == g.params
        potatoDrawX == g.potatoBaseX
        potatoDrawY == g.potatoBaseY + p.PotatoBounceY
        cx2 == 2 * potatoDrawX + g.potatoW
        cy2 == 2 * potatoDrawY + g.potatoH
    IN  << [op |-> "drawZoomedBackground",
            args |-> <<p.ZoomScale, p.ShakeDX, p.ShakeDY>>],
           [op |-> "drawHypnoWheel", args |-> <<p.SpiralAngle>>],
           [op |-> "drawDivineGlow",
            args |-> <<cx2, cy2, p.GlowRadius, p.GlowAlpha>>],
           [op |-> "DrawImage(scaledPotato)",
            args |-> <<potatoDrawX, potatoDrawY, p.PotatoRotation>>],
           [op |-> "drawPotatoClones",
            args |-> drawPotatoClones(g.potatoImg, p.Clones)],
           [op |-> "drawComicBursts", args |-> drawComicBursts(p.Bursts)],
           [op |-> "drawSparkle", args |-> p.Sparkles],
           [op |-> "drawMemeText",
            args |-> <<g.topTextUpper, topMargin, RoundDiv(fontSize * p.FontScale, FP), p.TextColor>>],
           [op |-> "drawMemeText",
            args |-> <<g.bottomTextUpper, bottomMargin, RoundDiv(fontSize * p.FontScale, FP), p.TextColor>>],
           [op |-> "drawTicker", args |-> <<g.tickerMsg, p.TickerX>>,
            draws |-> drawTicker(g.tickerMsg, p.TickerX)] >>

\* the next drawing call on the frame's canvas
DrawLayer(g) ==
    LET n == Len(g.dc.layers) + 1
    IN  [g EXCEPT !.dc.layers = Append(g.dc.layers, FrameLayers(g)[n]),
                  !.pc = IF n = Len(FrameLayers(g)) THEN "quantize" ELSE "draw"]

\* the canvas dithered into a paletted image of the canvas size, appended
\* with its delay; the canvas is dropped
QuantizeAppend(g) ==
    LET palettedImg == [w |-> canvasWidth, h |-> canvasHeight,
                        from |-> g.dc.layers]
    IN  [g EXCEPT !.anim.Image = Append(g.anim.Image, palettedImg),
                  !.anim.Delay = Append(g.anim.Delay, FrameDelay),
                  !.dc = NoCanvas,
                  !.i = g.i + 1,
                  !.pc = "loop"]

\* the invocation is between its entry and its return
Running(g) == g.pc \in {"validate", "prescale", "loop", "draw", "quantize"}

\* one step of an invocation that is under way; k is what the global
\* random source draws if the step draws from it
GenStep(g, k) ==
    CASE g.pc = "validate" -> Validate(g)
      [] g.pc = "prescale" -> Prescale(g, k)
      [] g.pc = "loop" -> FrameStart(g)
      [] g.pc = "draw" -> DrawLayer(g)
      [] g.pc = "quantize" -> QuantizeAppend(g)
      [] OTHER -> g

\* a draw from the process-global source (rand.IntN): the value drawn is
\* free, since the runtime seeds the source at random; the source moves on
GlobalDraw == globalRand' = (globalRand + 1) % (GlobalRandMax + 1)

(***************************************************************************)
(* The generator on its own: a caller invokes Generate or GenerateRandom,  *)
(* the invocation runs, the caller takes the result.                       *)
(***************************************************************************)
CallGenerate ==
    /\ gen.pc = "idle"
    /\ \E p \in PotatoInputs, c \in CatInputs, t \in TextInputs :
          gen' = EnterGenerate(p, c, Text(t[1]), Text(t[2]))
    /\ UNCHANGED <<globalRand, calls, srv, reddit, conc>>

CallGenerateRandom ==
    /\ gen.pc = "idle"
    /\ \E p \in PotatoInputs, c \in CatInputs, k \in 0..(Len(memeTexts) - 1) :
          /\ gen' = EnterGenerateRandom(p, c, k)
          /\ GlobalDraw
    /\ UNCHANGED <<calls, srv, reddit, conc>>

GenValidate ==
    /\ gen.pc = "validate"
    /\ gen' = Validate(gen)
    /\ UNCHANGED <<globalRand, calls, srv, reddit, conc>>

GenPrescale ==
    /\ gen.pc = "prescale"
    /\ \E k \in 0..(Len(tickerMessages) - 1) :
          /\ gen' = Prescale(gen, k)
          /\ GlobalDraw
    /\ UNCHANGED <<calls, srv, reddit, conc>>

GenFrameStart ==
    /\ gen.pc = "loop"
    /\ gen' = FrameStart(gen)
    /\ UNCHANGED <<globalRand, calls, srv, reddit, conc>>

GenDrawLayer ==
    /\ gen.pc = "draw"
    /\ gen' = DrawLayer(gen)
    /\ UNCHANGED <<globalRand, calls, srv, reddit, conc>>

GenQuantizeAppend ==
    /\ gen.pc = "quantize"
    /\ gen' = QuantizeAppend(gen)
    /\ UNCHANGED <<globalRand, calls, srv, reddit, conc>>

\* the caller has the result; the generator is ready for the next call
GenTaken ==
    /\ gen.pc = "done"
    /\ gen' = IdleGen
    /\ UNCHANGED <<globalRand, calls, srv, reddit, conc>>

(***************************************************************************)
(* ComputeFrameParams on its own: callers invoke it with any frame index   *)
(* of the animation and any canvas among CanvasInputs, while other code    *)
(* draws from the process-global source.                                   *)
(***************************************************************************)
\* canvas sizes <<canvasW, canvasH>> a caller passes: all positive
CanvasInputs == {<<canvasWidth, canvasHeight>>, <<160, 480>>, <<320, 200>>}

\* a call, recorded with the position the global source was at
CallRecord(frame, totalFrames, canvasW, canvasH) ==
    [frame |-> frame, totalFrames |-> totalFrames,
     canvasW |-> canvasW, canvasH |-> canvasH, at |-> globalRand,
     result |-> ComputeFrameParams(frame, totalFrames, canvasW, canvasH)]

\* a caller makes a call
CallComputeFrameParams ==
    /\ Len(calls) # 1
    /\ \E frame \in 0..(TotalFrames - 1), cv \in CanvasInputs :
          calls' = <<CallRecord(frame, TotalFrames, cv[1], cv[2])>>
    /\ UNCHANGED <<gen, globalRand, srv, reddit, conc>>

\* the call is made again with identical arguments
RepeatComputeFrameParams ==
    /\ Len(calls) = 1
    /\ calls' = Append(calls, CallRecord(calls[1].frame, calls[1].totalFrames,
                                         calls[1].canvasW, calls[1].canvasH))
    /\ UNCHANGED <<gen, globalRand, srv, reddit, conc>>

\* some other code (Generate, GenerateRandom, handleMeme) draws from the
\* process-global source
OtherGlobalDraw ==
    /\ GlobalDraw
    /\ UNCHANGED <<gen, calls, srv, reddit, conc>>

(***************************************************************************)
(* ComputeFrameParams for animations of any length: a caller passes a      *)
(* total frame count up to MaxTotalFrames and a frame index below it, on   *)
(* a canvas among FrameCanvasInputs.                                       *)
(***************************************************************************)
\* total frame counts a caller passes: 1..MaxTotalFrames
MaxTotalFrames == 128

\* canvas sizes a caller passes: the program's, the smallest the bursts
\* allow, a tall one
FrameCanvasInputs == {<<canvasWidth, canvasHeight>>, <<161, 201>>, <<300, 1000>>}

\* a caller makes a call for frame `frame` of `totalFrames`
CallFrameOfTotal ==
    /\ calls = <<>>
    /\ \E totalFrames \in 1..MaxTotalFrames, cv \in FrameCanvasInputs :
          \E frame \in 0..(totalFrames - 1) :
             calls' = <<CallRecord(frame, totalFrames, cv[1], cv[2])>>
    /\ UNCHANGED <<gen, globalRand, srv, reddit, conc>>

\* the caller has the FrameParams value
FrameParamsTaken ==
    /\ Len(calls) = 1
    /\ calls' = <<>>
    /\ UNCHANGED <<gen, globalRand, srv, reddit, conc>>

(***************************************************************************)
(* The drawing helpers on their own: drawDivineGlow, drawStarburst and     *)
(* scaleHeight, each called with arguments from a small set.  What a       *)
(* helper draws is the sequence of calls it makes on the context.          *)
(***************************************************************************)
\* rings := 12
rings == 12

RECURSIVE GlowLoopAll(_, _, _, _, _, _)
\* mutant: a ring is filled whatever its alpha
GlowLoopAll(i, cx2, cy2, radius, alpha, acc) ==
    IF i < 0 THEN acc
    ELSE GlowLoopAll(i - 1, cx2, cy2, radius, alpha,
            Append(acc, [cx2 |-> cx2, cy2 |-> cy2, r12 |-> radius * i,
                         ringAlpha |-> RoundDiv(alpha * (rings - i) * 8, rings * 10)]))

RECURSIVE GlowLoop(_, _, _, _, _, _)
\* the loop of drawDivineGlow from ring i down to ring 0: ring i has radius
\* radius*i/rings (r12 is in twelfths of a pixel) and alpha
\* alpha*(1 - i/rings)*0.8 (FP units), and is filled unless that is below
\* 0.01
GlowLoop(i, cx2, cy2, radius, alpha, acc) ==
    IF i < 0 THEN acc
    ELSE IF alpha * (rings - i) * 8 < (FP \div 100) * rings * 10
         THEN GlowLoop(i - 1, cx2, cy2, radius, alpha, acc)
         ELSE GlowLoop(i - 1, cx2, cy2, radius, alpha,
                 Append(acc, [cx2 |-> cx2, cy2 |-> cy2, r12 |-> radius * i,
                              ringAlpha |-> RoundDiv(alpha * (rings - i) * 8,
                                                     rings * 10)]))

\* mutant: no ring is skipped
drawDivineGlowAll(cx2, cy2, radius, alpha) ==
    GlowLoopAll(rings, cx2, cy2, radius, alpha, <<>>)

\* drawDivineGlow(dc, cx, cy, radius, alpha): the circles it fills, in the
\* order it fills them (centre coordinates doubled, alpha in FP units)
drawDivineGlow(cx2, cy2, radius, alpha) ==
    GlowLoop(rings, cx2, cy2, radius, alpha, <<>>)

\* r*math.Cos and r*math.Sin of the angle rotation + i*pi/points, in FP
\* units; rotation is rot[1]/rot[2] of pi
StarCos(r, i, points, rot) ==
    r * SinTurns(2 * (rot[1] * points + i * rot[2]) + points * rot[2],
                 4 * points * rot[2])
StarSin(r, i, points, rot) ==
    r * SinTurns(2 * (rot[1] * points + i * rot[2]), 4 * points * rot[2])

RECURSIVE StarLoopFlipped(_, _, _, _, _, _, _, _)
\* mutant: the inner radius on the even vertices
StarLoopFlipped(i, cx, cy, outerR, innerR, points, rot, path) ==
    IF i >= points * 2 THEN path
    ELSE LET r == IF i % 2 = 0 THEN innerR ELSE outerR
             x == cx * FP + StarCos(r, i, points, rot)
             y == cy * FP + StarSin(r, i, points, rot)
         IN  StarLoopFlipped(i + 1, cx, cy, outerR, innerR, points, rot,
                Append(path, [op |-> IF i = 0 THEN "MoveTo" ELSE "LineTo",
                              x |-> x, y |-> y]))

RECURSIVE StarLoop(_, _, _, _, _, _, _, _)
\* the loop of drawStarburst from vertex i on: MoveTo the first vertex,
\* LineTo every later one (coordinates in FP units)
StarLoop(i, cx, cy, outerR, innerR, points, rot, path) ==
    IF i >= points * 2 THEN path
    ELSE LET r == IF i % 2 = 1 THEN innerR ELSE outerR
             x == cx * FP + StarCos(r, i, points, rot)
             y == cy * FP + StarSin(r, i, points, rot)
         IN  StarLoop(i + 1, cx, cy, outerR, innerR, points, rot,
                Append(path, [op |-> IF i = 0 THEN "MoveTo" ELSE "LineTo",
                              x |-> x, y |-> y]))

\* dc.ClosePath(): a line back to the start of the path, when there is one
ClosePath(path) ==
    IF path = <<>> THEN path
    ELSE Append(path, [op |-> "ClosePath", x |-> path[1].x, y |-> path[1].y])

\* mutant: the inner and outer radii change places
drawStarburstFlipped(cx, cy, outerR, innerR, points, rot) ==
    ClosePath(StarLoopFlipped(0, cx, cy, outerR, innerR, points, rot, <<>>))

\* drawStarburst(dc, cx, cy, outerR, innerR, points, rotation): the path it
\* traces on a context with no current path
drawStarburst(cx, cy, outerR, innerR, points, rot) ==
    ClosePath(StarLoop(0, cx, cy, outerR, innerR, points, rot, <<>>))

\* glow radii and alphas (FP units) a caller passes: those of
\* ComputeFrameParams and the edges around them
GlowRadiusInputs == {0} \cup 100..140
GlowAlphaInputs == {0, 100, 1000, 1400, 1600, 2000, 4000, 6000, FP}

\* point counts a caller passes: 0..MaxPoints
MaxPoints == 10
\* <<outerR, innerR>>: 45 and 22 times a burst scale of 1.0, 1.3, 0.7
StarRadiusInputs == {<<45, 22>>, <<58, 28>>, <<31, 15>>}
\* rotations, as parts of pi: none, a quarter turn
StarRotationInputs == {<<0, 1>>, <<1, 2>>}
StarCentreInputs == {<<320, 240>>, <<80, 80>>}

\* source images and target widths a caller passes to scaleHeight
ScaleSrcInputs == {Img(w, h) : w \in {0, 1, 3, 400, 640}, h \in {0, 1, 7, 200, 480}}
ScaleTargetInputs == {0, 1, 96, 128, 160, 200, 256}

CallDrawDivineGlow ==
    /\ calls = <<>>
    /\ \E radius \in GlowRadiusInputs, alpha \in GlowAlphaInputs :
          calls' = <<[fn |-> "drawDivineGlow", cx2 |-> 2 * 352 + 256,
                      cy2 |-> 2 * 200 + 128, radius |-> radius, alpha |-> alpha,
                      result |-> drawDivineGlow(2 * 352 + 256, 2 * 200 + 128,
                                                radius, alpha)]>>
    /\ UNCHANGED <<gen, globalRand, srv, reddit, conc>>

CallDrawStarburst ==
    /\ calls = <<>>
    /\ \E points \in 0..MaxPoints, rr \in StarRadiusInputs,
          rot \in StarRotationInputs, c \in StarCentreInputs :
          calls' = <<[fn |-> "drawStarburst", cx |-> c[1], cy |-> c[2],
                      outerR |-> rr[1], innerR |-> rr[2], points |-> points,
                      rotation |-> rot,
                      result |-> drawStarburst(c[1], c[2], rr[1], rr[2],
                                               points, rot)]>>
    /\ UNCHANGED <<gen, globalRand, srv, reddit, conc>>

CallScaleHeight ==
    /\ calls = <<>>
    /\ \E src \in ScaleSrcInputs, targetW \in ScaleTargetInputs :
          calls' = <<[fn |-> "scaleHeight", src |-> src, targetW |-> targetW,
                      result |-> scaleHeight(src, targetW)]>>
    /\ UNCHANGED <<gen, globalRand, srv, reddit, conc>>

\* the helper has returned to its caller
HelperReturns ==
    /\ Len(calls) = 1
    /\ calls' = <<>>
    /\ UNCHANGED <<gen, globalRand, srv, reddit, conc>>

(***************************************************************************)
(* handleMeme: one GET /meme request.  The two fetches run as tasks of an  *)
(* errgroup; the generator is the meme.Generator the server was built      *)
(* with, known to the handler by its interface alone.                      *)
(***************************************************************************)
StatusOK == 200
StatusBadGateway == 502
StatusInternalServerError == 500

\* what the top and bottom query parameters can be
QueryTexts == {"", "hello"}

NoResponse == [status |-> 0, contentType |-> "", kind |-> "none", error |-> "",
               frames |-> 0, width |-> 0, height |-> 0]
NoGenResult == [returned |-> FALSE, err |-> "", frames |-> 0,
                width |-> 0, height |-> 0]

IdleSrv ==
    [pc |-> "idle", topText |-> "", bottomText |-> "",
     ctxDone |-> FALSE, gctxDone |-> FALSE, ctxDoneAt |-> "never",
     ptask |-> "none", ctask |-> "none", perr |-> "", cerr |-> "",
     groupErr |-> "", firstFailed |-> "none",
     potatoURL |-> "", potatoImg |-> NilImage, catImg |-> NilImage,
     writers |-> [potatoImg |-> <<>>, catImg |-> <<>>],
     genCalls |-> <<>>, genResult |-> NoGenResult,
     resp |-> NoResponse, writeErrors |-> 0, logged |-> <<>>]

\* the images the two sources deliver
FetchedPotato == Img(200, 200)
FetchedCat == Img(640, 480)

\* the handler's first statements: the query parameters, the request
\* context with its timeout, the search query drawn, the two tasks started
StartRequest(top, bottom) ==
    [IdleSrv EXCEPT !.pc = "fetching", !.topText = top, !.bottomText = bottom,
                    !.ptask = "search", !.ctask = "fetch"]

\* mutant: every non-nil error replaces the one kept
GroupRecordLast(s, task, err) ==
    IF err # ""
    THEN [s EXCEPT !.groupErr = err, !.gctxDone = TRUE, !.firstFailed = task]
    ELSE s

\* errgroup: the first non-nil error a task returns is kept and cancels
\* the group's context
GroupRecord(s, task, err) ==
    IF err # "" /\ s.groupErr = ""
    THEN [s EXCEPT !.groupErr = err, !.gctxDone = TRUE, !.firstFailed = task]
    ELSE s

\* a task's function returns err ("" for nil)
TaskReturns(s, task, err) ==
    GroupRecord(IF task = "potato"
                THEN [s EXCEPT !.ptask = "returned", !.perr = err]
                ELSE [s EXCEPT !.ctask = "returned", !.cerr = err],
                task, err)

\* "potatoImg = img" in the potato task, "catImg = img" in the cat task:
\* the handler's variable is assigned, by the task named
StoreImage(s, task, img) ==
    IF task = "potato"
    THEN [s EXCEPT !.potatoImg = img,
                   !.writers.potatoImg = Append(s.writers.potatoImg, task)]
    ELSE [s EXCEPT !.catImg = img,
                   !.writers.catImg = Append(s.writers.catImg, task)]

\* the errors a context-aware call can end with: its own failure always,
\* the context's error once the context is done
CallErrors(s, own) ==
    {own} \cup (IF s.gctxDone THEN {"context canceled"} ELSE {})

\* writeError(w, status, message)
writeError(s, status, message) ==
    [s EXCEPT !.resp = IF s.resp.status = 0
                       THEN [status |-> status, contentType |-> "application/json",
                             kind |-> "json", error |-> message, frames |-> 0,
                             width |-> 0, height |-> 0]
                       ELSE [s.resp EXCEPT !.contentType = "application/json"],
              !.writeErrors = s.writeErrors + 1]

\* mutant: the error response is written, and the handler goes on
HandleWaitNoReturn(s) ==
    IF s.groupErr # ""
    THEN [writeError(s, StatusBadGateway, s.groupErr)
            EXCEPT !.pc = "generate", !.gctxDone = TRUE,
                   !.logged = Append(s.logged, "failed to fetch images")]
    ELSE [s EXCEPT !.pc = "generate", !.gctxDone = TRUE]

\* g.Wait() has returned: a fetch error ends the request with 502
HandleWait(s) ==
    IF s.groupErr # ""
    THEN [writeError(s, StatusBadGateway, s.groupErr)
            EXCEPT !.pc = "done", !.gctxDone = TRUE,
                   !.logged = Append(s.logged, "failed to fetch images")]
    ELSE [s EXCEPT !.pc = "generate", !.gctxDone = TRUE]

\* mutant: one text is enough
UseCustomTextEither(topText, bottomText) == topText # "" \/ bottomText # ""

\* whether the request carries its own texts
UseCustomText(topText, bottomText) == topText # "" /\ bottomText # ""

\* the generator operation the handler calls, with its arguments
GeneratorCall(s) ==
    IF UseCustomText(s.topText, s.bottomText)
    THEN [op |-> "Generate", potatoImg |-> s.potatoImg, catImg |-> s.catImg,
          topText |-> s.topText, bottomText |-> s.bottomText]
    ELSE [op |-> "GenerateRandom", potatoImg |-> s.potatoImg, catImg |-> s.catImg,
          topText |-> "", bottomText |-> ""]

\* what a meme.Generator can return: an animation, or an error
GeneratorOutcomes ==
    {[returned |-> TRUE, err |-> "", frames |-> TotalFrames,
      width |-> canvasWidth, height |-> canvasHeight],
     [returned |-> TRUE, err |-> "", frames |-> 1, width |-> 1, height |-> 1],
     [returned |-> TRUE, err |-> "meme generation failed", frames |-> 0,
      width |-> 0, height |-> 0]}

\* mutant: a generator error is answered like a fetch error
HandleGeneratedBadGateway(s, out) ==
    LET s1 == [s EXCEPT !.genCalls = Append(s.genCalls, GeneratorCall(s)),
                        !.genResult = out]
    IN  IF out.err # ""
        THEN [writeError(s1, StatusBadGateway, out.err)
                EXCEPT !.pc = "done",
                       !.logged = Append(s.logged, "failed to generate meme")]
        ELSE [s1 EXCEPT !.pc = "encode"]

\* mutant: the error response is written, and the handler goes on to encode
HandleGeneratedNoReturn(s, out) ==
    LET s1 == [s EXCEPT !.genCalls = Append(s.genCalls, GeneratorCall(s)),
                        !.genResult = out]
    IN  IF out.err # ""
        THEN [writeError(s1, StatusInternalServerError, out.err)
                EXCEPT !.pc = "encode",
                       !.logged = Append(s.logged, "failed to generate meme")]
        ELSE [s1 EXCEPT !.pc = "encode"]

\* the generator has returned out: an error ends the request with 500
HandleGenerated(s, out) ==
    LET s1 == [s EXCEPT !.genCalls = Append(s.genCalls, GeneratorCall(s)),
                        !.genResult = out]
    IN  IF out.err # ""
        THEN [writeError(s1, StatusInternalServerError, out.err)
                EXCEPT !.pc = "done",
                       !.logged = Append(s.logged, "failed to generate meme")]
        ELSE [s1 EXCEPT !.pc = "encode"]

\* mutant: the animation is announced as a PNG image
HandleEncodePNG(s, ok) ==
    IF ok
    THEN [s EXCEPT !.pc = "done",
                   !.resp = [status |-> StatusOK, contentType |-> "image/png",
                             kind |-> "gif", error |-> "",
                             frames |-> s.genResult.frames,
                             width |-> s.genResult.width,
                             height |-> s.genResult.height]]
    ELSE [s EXCEPT !.pc = "done",
                   !.resp = [status |-> StatusOK, contentType |-> "image/png",
                             kind |-> "none", error |-> "", frames |-> 0,
                             width |-> 0, height |-> 0],
                   !.logged = Append(s.logged, "failed to encode meme as GIF")]

\* mutant: the first frame alone is sent, as a PNG image
HandleEncodeStill(s, ok) ==
    IF ok
    THEN [s EXCEPT !.pc = "done",
                   !.resp = [status |-> StatusOK, contentType |-> "image/png",
                             kind |-> "png", error |-> "", frames |-> 1,
                             width |-> s.genResult.width,
                             height |-> s.genResult.height]]
    ELSE [s EXCEPT !.pc = "done",
                   !.resp = [status |-> StatusOK, contentType |-> "image/png",
                             kind |-> "none", error |-> "", frames |-> 0,
                             width |-> 0, height |-> 0],
                   !.logged = Append(s.logged, "failed to encode meme as PNG")]

\* the Content-Type is set and the animation encoded into the response;
\* ok is whether the response writer took every byte (it does not once the
\* connection is lost): a failure is logged, and the response stays as far
\* as it got
HandleEncode(s, ok) ==
    IF ok
    THEN [s EXCEPT !.pc = "done",
                   !.resp = [status |-> StatusOK, contentType |-> "image/gif",
                             kind |-> "gif", error |-> "",
                             frames |-> s.genResult.frames,
                             width |-> s.genResult.width,
                             height |-> s.genResult.height]]
    ELSE [s EXCEPT !.pc = "done",
                   !.resp = [status |-> StatusOK, contentType |-> "image/gif",
                             kind |-> "none", error |-> "", frames |-> 0,
                             width |-> 0, height |-> 0],
                   !.logged = Append(s.logged, "failed to encode meme as GIF")]

SrvStart ==
    /\ srv.pc = "idle"
    /\ \E top \in QueryTexts, bottom \in QueryTexts :
          srv' = StartRequest(top, bottom)
    /\ GlobalDraw
    /\ UNCHANGED <<gen, calls, reddit, conc>>

\* the request's context ends: the client went away, or the 15 s ran out
SrvContextDone ==
    /\ srv.pc \in {"fetching", "generate", "generating", "encode"}
    /\ ~srv.ctxDone
    /\ srv' = [srv EXCEPT !.ctxDone = TRUE, !.gctxDone = TRUE,
                          !.ctxDoneAt = srv.pc]
    /\ UNCHANGED <<gen, globalRand, calls, reddit, conc>>

\* the potato task: s.potato.SearchRandom; a call begun under a context
\* that is done returns that context's error
SrvPotatoSearch ==
    /\ srv.pc = "fetching" /\ srv.ptask = "search"
    /\ \/ /\ ~srv.gctxDone
          /\ srv' = [srv EXCEPT !.ptask = "download",
                                !.potatoURL = "http://potato.example/potato.png"]
       \/ \E e \in CallErrors(srv, "potato search failed") :
             srv' = TaskReturns(srv, "potato", "searching for potato image: " \o e)
    /\ UNCHANGED <<gen, globalRand, calls, reddit, conc>>

\* the potato task: the download, the status check and the decoding; a
\* request begun under a context that is done fails
SrvPotatoDownload ==
    /\ srv.pc = "fetching" /\ srv.ptask = "download"
    /\ \/ /\ ~srv.gctxDone
          /\ srv' = TaskReturns(StoreImage(srv, "potato", FetchedPotato), "potato", "")
       \/ \E e \in CallErrors(srv, "connection refused") :
             srv' = TaskReturns(srv, "potato", "downloading potato image: " \o e)
       \/ srv' = TaskReturns(srv, "potato", "potato image download returned status 500")
       \/ srv' = TaskReturns(srv, "potato", "decoding potato image: image: unknown format")
    /\ UNCHANGED <<gen, globalRand, calls, reddit, conc>>

\* the cat task: s.cataas.FetchRandomCat, whose request carries gctx
SrvCatFetch ==
    /\ srv.pc = "fetching" /\ srv.ctask = "fetch"
    /\ \/ /\ ~srv.gctxDone
          /\ srv' = TaskReturns(StoreImage(srv, "cat", FetchedCat), "cat", "")
       \/ \E e \in CallErrors(srv, "cataas is down") :
             srv' = TaskReturns(srv, "cat", "fetching cat image: " \o e)
    /\ UNCHANGED <<gen, globalRand, calls, reddit, conc>>

\* mutant: the join lets go as soon as one task has returned
WaitReturnsFirst(s) == s.ptask = "returned" \/ s.ctask = "returned"

\* g.Wait() blocks until every function started with g.Go has returned
WaitReturns(s) == s.ptask = "returned" /\ s.ctask = "returned"

\* g.Wait() returns once both tasks have
SrvWait ==
    /\ srv.pc = "fetching" /\ WaitReturns(srv)
    /\ srv' = HandleWait(srv)
    /\ UNCHANGED <<gen, globalRand, calls, reddit, conc>>

SrvGenerate ==
    /\ srv.pc = "generate"
    /\ \E out \in GeneratorOutcomes : srv' = HandleGenerated(srv, out)
    /\ UNCHANGED <<gen, globalRand, calls, reddit, conc>>

SrvEncode ==
    /\ srv.pc = "encode"
    /\ \E ok \in BOOLEAN : srv' = HandleEncode(srv, ok)
    /\ UNCHANGED <<gen, globalRand, calls, reddit, conc>>

\* the handler has returned; the server takes the next request
SrvFinish ==
    /\ srv.pc = "done"
    /\ srv' = IdleSrv
    /\ UNCHANGED <<gen, globalRand, calls, reddit, conc>>

(***************************************************************************)
(* RedditClient.SearchRandom.  URLs are sequences of characters, so that   *)
(* the extension test is computed as strings.ToLower and HasSuffix do.     *)
(***************************************************************************)
subreddits == <<"potato", "PotatoesAreFunny", "potatoes">>

\* the hard-coded fallback list pickFallback draws from
fallbackURLs ==
    << <<"f", "1", ".", "j", "p", "g">>, <<"f", "2", ".", "p", "n", "g">>,
       <<"f", "3", ".", "j", "p", "e", "g">> >>

\* the longest listing a response carries
MaxPosts == 2

\* the posts a listing can hold: one that passes every filter, one that
\* passes with an upper-case extension, and posts that fail one filter or
\* more
PostInputs ==
    { [URL |-> <<"a", ".", "j", "p", "g">>, PostHint |-> "image",
       IsVideo |-> FALSE, Over18 |-> FALSE],
      [URL |-> <<"b", ".", "J", "P", "E", "G">>, PostHint |-> "image",
       IsVideo |-> FALSE, Over18 |-> FALSE],
      [URL |-> <<"n", ".", "j", "p", "g">>, PostHint |-> "image",
       IsVideo |-> FALSE, Over18 |-> TRUE],
      [URL |-> <<"v", ".", "m", "p", "4">>, PostHint |-> "hosted:video",
       IsVideo |-> TRUE, Over18 |-> FALSE],
      [URL |-> <<"g", "/", "a", "b", "c">>, PostHint |-> "image",
       IsVideo |-> FALSE, Over18 |-> FALSE],
      [URL |-> <<"l", ".", "p", "n", "g">>, PostHint |-> "link",
       IsVideo |-> FALSE, Over18 |-> FALSE],
      [URL |-> <<"m", ".", "g", "i", "f">>, PostHint |-> "image",
       IsVideo |-> TRUE, Over18 |-> FALSE] }

\* listing.Data.Children of a decoded response
ListingInputs == UNION {[1..n -> PostInputs] : n \in 0..MaxPosts}

\* strings.ToLower, on the letters the URLs are written with
toLower(u) ==
    [n \in 1..Len(u) |->
        CASE u[n] = "J" -> "j" [] u[n] = "P" -> "p" [] u[n] = "E" -> "e"
          [] u[n] = "G" -> "g" [] u[n] = "N" -> "n" [] u[n] = "I" -> "i"
          [] u[n] = "F" -> "f" [] OTHER -> u[n]]

\* strings.HasSuffix
HasSuffix(str, suffix) ==
    /\ Len(str) >= Len(suffix)
    /\ SubSeq(str, Len(str) - Len(suffix) + 1, Len(str)) = suffix

\* whether the URL ends with a common image extension
isImageURL(u) ==
    LET lower == toLower(u)
    IN  \/ HasSuffix(lower, <<".", "j", "p", "g">>)
        \/ HasSuffix(lower, <<".", "j", "p", "e", "g">>)
        \/ HasSuffix(lower, <<".", "p", "n", "g">>)
        \/ HasSuffix(lower, <<".", "g", "i", "f">>)

\* mutant: posts marked over_18 are let through
KeepsPostAdult(post) ==
    /\ ~(post.PostHint # "image")
    /\ ~post.IsVideo
    /\ ~(~isImageURL(post.URL))

\* the four "continue" tests of the filter loop: whether the post is kept
KeepsPost(post) ==
    /\ ~(post.PostHint # "image")
    /\ ~post.IsVideo
    /\ ~post.Over18
    /\ ~(~isImageURL(post.URL))

\* the filter loop: the URLs of the posts kept, in listing order
Candidates(children) ==
    LET kept == SelectSeq(children, KeepsPost)
    IN  [n \in 1..Len(kept) |-> kept[n].URL]

\* context.Canceled and context.DeadlineExceeded, by their messages
ContextErrors == {"context canceled", "context deadline exceeded"}

IdleReddit ==
    [pc |-> "idle", ctxErr |-> "", ctxErrAtEntry |-> "", sub |-> "",
     requests |-> 0, listed |-> FALSE, children |-> <<>>, candidates |-> <<>>,
     fetchURL |-> <<>>, fetchErr |-> "",
     url |-> <<>>, err |-> "", returned |-> FALSE, fallback |-> FALSE]

\* return (url, err) from SearchRandom
SearchRandomReturns(r, url, err) ==
    [r EXCEPT !.pc = "returned", !.returned = TRUE, !.url = url, !.err = err]

\* mutant: the entry check is missing
SearchRandomEntryUnchecked(r) == [r EXCEPT !.pc = "fetch"]

\* the check SearchRandom starts with
SearchRandomEntry(r) ==
    IF r.ctxErr # ""
    THEN SearchRandomReturns(r, <<>>, r.ctxErr)
    ELSE [r EXCEPT !.pc = "fetch"]

\* what rc.httpClient.Do and the decoding can come to: a request that
\* carries a context that is done fails
FetchOutcomes(r) ==
    {[kind |-> "request error", children |-> <<>>]}
    \cup (IF r.ctxErr = ""
          THEN {[kind |-> "status", children |-> <<>>],
                [kind |-> "undecodable", children |-> <<>>]}
               \cup {[kind |-> "listing", children |-> l] : l \in ListingInputs}
          ELSE {})

\* fetchFromReddit up to the filter loop's end, for the subreddit of index
\* k and the outcome out of the request
fetchFromReddit(r, k, out) ==
    LET r1 == [r EXCEPT !.sub = subreddits[k + 1], !.requests = r.requests + 1,
                        !.pc = "fetched"]
    IN  CASE out.kind = "request error" ->
               [r1 EXCEPT !.fetchErr = "executing reddit request: "
                             \o (IF r.ctxErr # "" THEN r.ctxErr ELSE "connection refused")]
          [] out.kind = "status" ->
               [r1 EXCEPT !.fetchErr = "reddit returned status 500"]
          [] out.kind = "undecodable" ->
               [r1 EXCEPT !.fetchErr = "decoding reddit response: unexpected EOF"]
          [] OTHER ->
               IF Len(Candidates(out.children)) = 0
               THEN [r1 EXCEPT !.listed = TRUE, !.children = out.children,
                               !.fetchErr = "no qualifying image posts found in r/"
                                              \o subreddits[k + 1]]
               ELSE [r1 EXCEPT !.listed = TRUE, !.children = out.children,
                               !.candidates = Candidates(out.children),
                               !.pc = "pick"]

\* return candidates[rand.IntN(len(candidates))], nil, for the index k drawn
PickCandidate(r, k) ==
    [r EXCEPT !.pc = "fetched", !.fetchURL = r.candidates[k + 1]]

\* pickFallback, for the index k drawn
pickFallback(k) == fallbackURLs[k + 1]

\* mutant: a failed fetch is handed to the caller
SearchRandomNoFallback(r, k) ==
    IF r.fetchErr # ""
    THEN IF r.ctxErr # ""
         THEN SearchRandomReturns(r, <<>>, r.ctxErr)
         ELSE SearchRandomReturns(r, <<>>, r.fetchErr)
    ELSE SearchRandomReturns(r, r.fetchURL, "")

\* SearchRandom once fetchFromReddit has returned; k is the index
\* pickFallback draws, if it is called
SearchRandomAfterFetch(r, k) ==
    IF r.fetchErr # ""
    THEN IF r.ctxErr # ""
         THEN SearchRandomReturns(r, <<>>, r.ctxErr)
         ELSE [SearchRandomReturns(r, pickFallback(k), "") EXCEPT !.fallback = TRUE]
    ELSE SearchRandomReturns(r, r.fetchURL, "")

\* a caller invokes SearchRandom, with a context that is live, cancelled or
\* expired
CallSearchRandom ==
    /\ reddit.pc = "idle"
    /\ \E e \in {""} \cup ContextErrors :
          reddit' = [IdleReddit EXCEPT !.pc = "entry", !.ctxErr = e,
                                       !.ctxErrAtEntry = e]
    /\ UNCHANGED <<gen, globalRand, calls, srv, conc>>

\* the context is cancelled, or its deadline passes, while the call runs
RedContextDone ==
    /\ reddit.pc \in {"entry", "fetch", "pick", "fetched"}
    /\ reddit.ctxErr = ""
    /\ \E e \in ContextErrors : reddit' = [reddit EXCEPT !.ctxErr = e]
    /\ UNCHANGED <<gen, globalRand, calls, srv, conc>>

RedEntry ==
    /\ reddit.pc = "entry"
    /\ reddit' = SearchRandomEntry(reddit)
    /\ UNCHANGED <<gen, globalRand, calls, srv, conc>>

\* the subreddit is drawn, the request made, the response decoded and
\* filtered
RedRequest ==
    /\ reddit.pc = "fetch"
    /\ \E k \in 0..(Len(subreddits) - 1), out \in FetchOutcomes(reddit) :
          reddit' = fetchFromReddit(reddit, k, out)
    /\ GlobalDraw
    /\ UNCHANGED <<gen, calls, srv, conc>>

RedPick ==
    /\ reddit.pc = "pick"
    /\ \E k \in 0..(Len(reddit.candidates) - 1) :
          reddit' = PickCandidate(reddit, k)
    /\ GlobalDraw
    /\ UNCHANGED <<gen, calls, srv, conc>>

\* the fetch has failed under a live context: the fallback is drawn
RedFallback ==
    /\ reddit.pc = "fetched" /\ reddit.fetchErr # "" /\ reddit.ctxErr = ""
    /\ \E k \in 0..(Len(fallbackURLs) - 1) :
          reddit' = SearchRandomAfterFetch(reddit, k)
    /\ GlobalDraw
    /\ UNCHANGED <<gen, calls, srv, conc>>

\* the fetch has succeeded, or failed under a context that is done
RedReturn ==
    /\ reddit.pc = "fetched" /\ ~(reddit.fetchErr # "" /\ reddit.ctxErr = "")
    /\ reddit' = SearchRandomAfterFetch(reddit, 0)
    /\ UNCHANGED <<gen, globalRand, calls, srv, conc>>

\* the caller has the result
RedTaken ==
    /\ reddit.pc = "returned"
    /\ reddit' = IdleReddit
    /\ UNCHANGED <<gen, globalRand, calls, srv, conc>>

(***************************************************************************)
(* Generate invocations side by side on one MemeGenerator.                 *)
(***************************************************************************)
\* the goroutines that call Generate on the one MemeGenerator
Invocations == {1, 2}

\* the texts each of them passes
ConcTexts == << <<"top text", "bottom text">>, <<"a", "b">> >>

\* the indexes rand.IntN(len(tickerMessages)) draws for them: the first and
\* the last
ConcTickerDraws == {0, Len(tickerMessages) - 1}

\* the MemeGenerator (its parsed font), the two images the callers hold and
\* pass to every invocation, and the invocations, each with its own locals
IdleConc ==
    [font |-> "Anton-Regular.ttf",
     potatoImg |-> Img(400, 200), catImg |-> Img(640, 480),
     inv |-> [id \in Invocations |-> IdleGen]]

\* mutant: the animation under construction is kept in the MemeGenerator,
\* so all invocations build the same one
ConcStepOfSharedAnim(c, id, k) ==
    [c EXCEPT !.inv = [j \in Invocations |->
        IF j = id THEN GenStep(c.inv[id], k)
        ELSE IF Running(c.inv[j])
             THEN [c.inv[j] EXCEPT !.anim = GenStep(c.inv[id], k).anim]
             ELSE c.inv[j]]]

\* a step of invocation id: it reads the font and its arguments and writes
\* its own locals only
ConcStepOf(c, id, k) == [c EXCEPT !.inv[id] = GenStep(c.inv[id], k)]

\* goroutine id calls g.Generate with the shared images
ConcCall ==
    /\ \E id \in Invocations :
          /\ conc.inv[id].pc = "idle"
          /\ conc' = [conc EXCEPT !.inv[id] =
                EnterGenerate(conc.potatoImg, conc.catImg,
                              Text(ConcTexts[id][1]), Text(ConcTexts[id][2]))]
    /\ UNCHANGED <<gen, globalRand, calls, srv, reddit>>

\* goroutine id prescales and draws its ticker message
ConcPrescale ==
    /\ \E id \in Invocations, k \in ConcTickerDraws :
          /\ conc.inv[id].pc = "prescale"
          /\ conc' = ConcStepOf(conc, id, k)
    /\ GlobalDraw
    /\ UNCHANGED <<gen, calls, srv, reddit>>

\* goroutine id takes any other step of Generate
ConcStep ==
    /\ \E id \in Invocations :
          /\ Running(conc.inv[id]) /\ conc.inv[id].pc # "prescale"
          /\ conc' = ConcStepOf(conc, id, 0)
    /\ UNCHANGED <<gen, globalRand, calls, srv, reddit>>

(***************************************************************************)
(* The server as main wires it: handleMeme with the MemeGenerator as its   *)
(* meme.Generator.  Past the join the handler is inside Generate or        *)
(* GenerateRandom, which runs as modelled above, until it returns.         *)
(***************************************************************************)
\* the indexes rand.IntN(len(memeTexts)) draws here: the first and the last
WiredPairDraws == {0, Len(memeTexts) - 1}

\* what the handler gets back from the invocation g
WiredOutcome(g) ==
    [returned |-> TRUE, err |-> g.result.err,
     frames |-> Len(g.result.anim.Image),
     width |-> IF Len(g.result.anim.Image) > 0 THEN g.result.anim.Image[1].w ELSE 0,
     height |-> IF Len(g.result.anim.Image) > 0 THEN g.result.anim.Image[1].h ELSE 0]

\* top and bottom are both given: s.meme.Generate
WiredCallGenerate ==
    /\ srv.pc = "generate" /\ gen.pc = "idle"
    /\ UseCustomText(srv.topText, srv.bottomText)
    /\ gen' = EnterGenerate(srv.potatoImg, srv.catImg,
                            Text(srv.topText), Text(srv.bottomText))
    /\ srv' = [srv EXCEPT !.pc = "generating"]
    /\ UNCHANGED <<globalRand, calls, reddit, conc>>

\* otherwise: s.meme.GenerateRandom
WiredCallGenerateRandom ==
    /\ srv.pc = "generate" /\ gen.pc = "idle"
    /\ ~UseCustomText(srv.topText, srv.bottomText)
    /\ \E k \in WiredPairDraws :
          gen' = EnterGenerateRandom(srv.potatoImg, srv.catImg, k)
    /\ GlobalDraw
    /\ srv' = [srv EXCEPT !.pc = "generating"]
    /\ UNCHANGED <<calls, reddit, conc>>

\* the generator returns to the handler
WiredReturn ==
    /\ srv.pc = "generating" /\ gen.pc = "done"
    /\ srv' = HandleGenerated([srv EXCEPT !.pc = "generate"], WiredOutcome(gen))
    /\ gen' = IdleGen
    /\ UNCHANGED <<globalRand, calls, reddit, conc>>

(***************************************************************************)
(* Generate under a caller that holds a context: the handler, past the     *)
(* join, calls Generate, which runs while the request's context may end.   *)
(***************************************************************************)
\* the handler calls s.meme.Generate(potatoImg, catImg, topText, bottomText)
SvcCallGenerate ==
    /\ gen.pc = "idle" /\ srv.pc = "idle"
    /\ \E p \in PotatoInputs, c \in CatInputs, t \in TextInputs :
          /\ gen' = EnterGenerate(p, c, Text(t[1]), Text(t[2]))
          /\ srv' = [IdleSrv EXCEPT !.pc = "generate",
                                    !.ptask = "returned", !.ctask = "returned",
                                    !.topText = t[1], !.bottomText = t[2],
                                    !.potatoImg = p, !.catImg = c]
    /\ UNCHANGED <<globalRand, calls, reddit, conc>>

\* Generate has returned to the handler
SvcGenerateReturns ==
    /\ gen.pc = "done" /\ srv.pc = "generate"
    /\ gen' = IdleGen
    /\ srv' = IdleSrv
    /\ UNCHANGED <<globalRand, calls, reddit, conc>>

\* a step of the goroutine that is inside Generate
GenRun ==
    \/ GenValidate
    \/ GenPrescale
    \/ GenFrameStart
    \/ GenDrawLayer
    \/ GenQuantizeAppend

Init ==
    /\ gen = IdleGen
    /\ globalRand = 0
    /\ calls = <<>>
    /\ srv = IdleSrv
    /\ reddit = IdleReddit
    /\ conc = IdleConc

Next ==
    \/ CallGenerate
    \/ CallGenerateRandom
    \/ GenValidate
    \/ GenPrescale
    \/ GenFrameStart
    \/ GenDrawLayer
    \/ GenQuantizeAppend
    \/ GenTaken

Spec == Init /\ [][Next]_vars

NextParams ==
    \/ CallComputeFrameParams
    \/ RepeatComputeFrameParams
    \/ OtherGlobalDraw

SpecParams == Init /\ [][NextParams]_vars

NextFrames ==
    \/ CallFrameOfTotal
    \/ FrameParamsTaken

SpecFrames == Init /\ [][NextFrames]_vars

NextHelpers ==
    \/ CallDrawDivineGlow
    \/ CallDrawStarburst
    \/ CallScaleHeight
    \/ HelperReturns

SpecHelpers == Init /\ [][NextHelpers]_vars

NextServer ==
    \/ SrvStart
    \/ SrvContextDone
    \/ SrvPotatoSearch
    \/ SrvPotatoDownload
    \/ SrvCatFetch
    \/ SrvWait
    \/ SrvGenerate
    \/ SrvEncode
    \/ SrvFinish

SpecServer == Init /\ [][NextServer]_vars

NextWired ==
    \/ SrvStart
    \/ SrvContextDone
    \/ SrvPotatoSearch
    \/ SrvPotatoDownload
    \/ SrvCatFetch
    \/ SrvWait
    \/ WiredCallGenerate
    \/ WiredCallGenerateRandom
    \/ GenValidate
    \/ GenPrescale
    \/ GenFrameStart
    \/ GenDrawLayer
    \/ GenQuantizeAppend
    \/ WiredReturn
    \/ SrvEncode
    \/ SrvFinish

SpecWired == Init /\ [][NextWired]_vars

NextReddit ==
    \/ CallSearchRandom
    \/ RedContextDone
    \/ RedEntry
    \/ RedRequest
    \/ RedPick
    \/ RedFallback
    \/ RedReturn
    \/ RedTaken

SpecReddit == Init /\ [][NextReddit]_vars

NextConc ==
    \/ ConcCall
    \/ ConcPrescale
    \/ ConcStep

SpecConc == Init /\ [][NextConc]_vars

NextRun ==
    \/ SvcCallGenerate
    \/ SrvContextDone
    \/ GenValidate
    \/ GenPrescale
    \/ GenFrameStart
    \/ GenDrawLayer
    \/ GenQuantizeAppend
    \/ SvcGenerateReturns

\* the goroutine inside Generate is runnable at every step (it never waits),
\* and the Go scheduler runs a runnable goroutine
SpecRun == Init /\ [][NextRun]_vars /\ WF_vars(GenRun)

(***************************************************************************)
(* The claims.                                                             *)
(***************************************************************************)
BothImages(g) == ~g.potatoImg.nil /\ ~g.catImg.nil

\* the animation a has TotalFrames frames of the canvas size, TotalFrames
\* delays of FrameDelay, and loops for ever
CompleteAnimation(a) ==
    /\ ~a.nil
    /\ Len(a.Image) = TotalFrames
    /\ Len(a.Delay) = TotalFrames
    /\ \A k \in 1..Len(a.Image) :
          a.Image[k].w = canvasWidth /\ a.Image[k].h = canvasHeight
    /\ \A k \in 1..Len(a.Delay) : a.Delay[k] = FrameDelay
    /\ a.LoopCount = 0

\* C1: Generate with two non-nil images does not panic and returns, with a
\* nil error, an animation of exactly TotalFrames frames and TotalFrames
\* delays, every frame canvasWidth x canvasHeight, every delay FrameDelay,
\* LoopCount 0.
C1_ValidInputs ==
    BothImages(gen) =>
        /\ gen.pc # "panic"
        /\ gen.pc = "done" =>
              /\ gen.result.returned
              /\ gen.result.err = ""
              /\ CompleteAnimation(gen.result.anim)

C1_Witness ==
    /\ gen.pc = "done" /\ gen.entry = "Generate" /\ BothImages(gen)
    /\ gen.result.returned /\ Len(gen.result.anim.Image) = TotalFrames

\* C2: a nil potato image yields the error "potato image is required", a nil
\* cat image with a non-nil potato yields "cat image is required", and in
\* both cases the animation returned is nil; the invocation goes no further
\* than the checks.
C2_MissingImage ==
    gen.pc \notin {"idle", "validate"} =>
        /\ gen.potatoImg.nil =>
              /\ gen.pc = "done" /\ gen.result.returned
              /\ gen.result.err = "potato image is required"
              /\ gen.result.anim.nil
        /\ (~gen.potatoImg.nil /\ gen.catImg.nil) =>
              /\ gen.pc = "done" /\ gen.result.returned
              /\ gen.result.err = "cat image is required"
              /\ gen.result.anim.nil

C2_Witness ==
    /\ gen.pc = "done" /\ gen.entry = "Generate"
    /\ ~gen.potatoImg.nil /\ gen.catImg.nil
    /\ gen.result.err = "cat image is required"

\* nothing of a generation has been built: no scaled image, no ticker
\* message, no animation, no frame parameters, no canvas, no loop iteration
NothingBuilt(g) ==
    /\ g.scaledCat = NilImage /\ g.scaledPotato = NilImage
    /\ g.potatoW = 0 /\ g.potatoH = 0
    /\ g.tickerMsg = ""
    /\ g.anim = NoAnim
    /\ g.params = NoParams
    /\ g.dc = NoCanvas
    /\ g.iterations = 0

\* C3: a generation never yields a partial animation: what Generate returns
\* is either a complete animation of TotalFrames frames with a nil error, or
\* a nil animation with an error decided before anything was built.
C3_NoPartialAnimation ==
    gen.result.returned =>
        \/ gen.result.err = "" /\ CompleteAnimation(gen.result.anim)
        \/ gen.result.err # "" /\ gen.result.anim.nil /\ NothingBuilt(gen)

C3_Witness ==
    /\ gen.result.returned /\ gen.result.err # ""
    /\ gen.potatoImg.nil /\ ~gen.catImg.nil
    /\ NothingBuilt(gen)

\* the drawing calls of the frame of index k in the invocation g
LayersOfIndex(g, k) ==
    FrameLayers([g EXCEPT !.params =
        ComputeFrameParams(k, TotalFrames, canvasWidth, canvasHeight)])

\* C4: frames are produced strictly in index order: the loop index is the
\* number of frames appended so far, and the k-th frame of the animation
\* returned (k = 0..TotalFrames-1) is the one composited with
\* ComputeFrameParams(k, TotalFrames, canvasWidth, canvasHeight).
C4_FrameOrder ==
    /\ gen.pc \in {"loop", "draw", "quantize"} => gen.i = Len(gen.anim.Image)
    /\ (gen.pc = "done" /\ gen.result.err = "") =>
          \A k \in 1..Len(gen.result.anim.Image) :
              gen.result.anim.Image[k].from = LayersOfIndex(gen, k - 1)

C4_Witness ==
    /\ gen.pc = "done" /\ gen.result.err = ""
    /\ Len(gen.result.anim.Image) = TotalFrames
    /\ gen.result.anim.Image[1].from[10].args[2] = canvasWidth
    /\ gen.result.anim.Image[TotalFrames].from[10].args[2]
          = canvasWidth - (TotalFrames - 1) * 40

\* C5: GenerateRandom passes the Top and the Bottom of one entry of
\* memeTexts to Generate and returns its result: with two non-nil images a
\* complete animation and a nil error, with a nil image an error.
C5_GenerateRandom ==
    gen.entry = "GenerateRandom" =>
        /\ \E k \in 1..Len(memeTexts) :
              /\ gen.topText = Text(memeTexts[k].Top)
              /\ gen.bottomText = Text(memeTexts[k].Bottom)
        /\ gen.pc # "panic"
        /\ gen.pc = "done" =>
              /\ gen.result.returned
              /\ BothImages(gen) =>
                    gen.result.err = "" /\ CompleteAnimation(gen.result.anim)
              /\ ~BothImages(gen) =>
                    gen.result.err # "" /\ gen.result.anim.nil

C5_Witness ==
    /\ gen.pc = "done" /\ gen.entry = "GenerateRandom" /\ BothImages(gen)
    /\ gen.pair = Len(memeTexts)
    /\ gen.result.err = "" /\ Len(gen.result.anim.Image) = TotalFrames

C7_Total ==
    \A n \in 1..Len(calls) :
        (/\ calls[n].frame \in 0..(calls[n].totalFrames - 1)
         /\ calls[n].canvasW > 0 /\ calls[n].canvasH > 0)
        => ~calls[n].result.panic

\* both fetches of the request have succeeded and g.Wait() has returned
FetchesSucceeded ==
    /\ srv.pc \in {"generate", "encode", "done"}
    /\ srv.perr = "" /\ srv.cerr = ""

\* C8: on a request whose two fetches succeed the handler calls exactly one
\* generator operation exactly once: Generate, with the texts given, when
\* top and bottom are both non-empty, GenerateRandom otherwise.
C8_OneGeneratorCall ==
    /\ Len(srv.genCalls) <= 1
    /\ (FetchesSucceeded /\ srv.pc # "generate") =>
          /\ Len(srv.genCalls) = 1
          /\ (srv.topText # "" /\ srv.bottomText # "") =>
                /\ srv.genCalls[1].op = "Generate"
                /\ srv.genCalls[1].topText = srv.topText
                /\ srv.genCalls[1].bottomText = srv.bottomText
          /\ (srv.topText = "" \/ srv.bottomText = "") =>
                srv.genCalls[1].op = "GenerateRandom"

C8_Witness ==
    /\ srv.pc = "done" /\ FetchesSucceeded
    /\ srv.topText # "" /\ srv.bottomText = ""
    /\ Len(srv.genCalls) = 1 /\ srv.genCalls[1].op = "GenerateRandom"

\* C9: if a step of fetching either image fails, the handler never invokes
\* the generator and answers 502 with a JSON body whose "error" is
\* non-empty.
C9_FetchFailure ==
    (srv.perr # "" \/ srv.cerr # "") =>
        /\ srv.genCalls = <<>>
        /\ srv.pc \in {"fetching", "done"}
        /\ srv.pc = "done" =>
              /\ srv.resp.status = StatusBadGateway
              /\ srv.resp.contentType = "application/json"
              /\ srv.resp.kind = "json"
              /\ srv.resp.error # ""

C9_Witness ==
    /\ srv.pc = "done" /\ srv.perr = "" /\ srv.cerr # ""
    /\ srv.potatoImg = FetchedPotato
    /\ srv.resp.status = StatusBadGateway

\* C10: if both fetches succeed and the generator returns an error, the
\* handler answers 500 with Content-Type application/json and a JSON body
\* whose "error" is non-empty, and writes no GIF data.
C10_GeneratorFailure ==
    (FetchesSucceeded /\ srv.genResult.returned /\ srv.genResult.err # "") =>
        /\ srv.pc = "done"
        /\ srv.resp.status = StatusInternalServerError
        /\ srv.resp.contentType = "application/json"
        /\ srv.resp.kind = "json"
        /\ srv.resp.error # ""
        /\ srv.resp.frames = 0

C10_Witness ==
    /\ srv.pc = "done" /\ FetchesSucceeded
    /\ srv.genResult.err # ""
    /\ srv.resp.status = StatusInternalServerError

\* the log of the request holds the message msg
Logged(msg) == \E n \in 1..Len(srv.logged) : srv.logged[n] = msg

\* the generator has returned an animation and a nil error
GenerationSucceeded ==
    srv.genResult.returned /\ srv.genResult.err = ""

TaskRunning == srv.ptask \in {"search", "download"} \/ srv.ctask = "fetch"

\* C12: the two fetches run as tasks that interleave freely, and the
\* generator is invoked only after the join: past g.Wait() no task is
\* running, each image variable has been assigned at most once and only by
\* its own task, the handler reads them (to call the generator) only then,
\* and the generator receives the images the tasks stored.
C12_FanInBeforeGenerate ==
    /\ Len(srv.writers.potatoImg) <= 1 /\ Len(srv.writers.catImg) <= 1
    /\ \A n \in 1..Len(srv.writers.potatoImg) : srv.writers.potatoImg[n] = "potato"
    /\ \A n \in 1..Len(srv.writers.catImg) : srv.writers.catImg[n] = "cat"
    /\ (srv.pc \in {"generate", "encode"} \/ srv.genCalls # <<>>) =>
          /\ ~TaskRunning
          /\ srv.writers.potatoImg = <<"potato">>
          /\ srv.writers.catImg = <<"cat">>
    /\ \A n \in 1..Len(srv.genCalls) :
          /\ srv.genCalls[n].potatoImg = FetchedPotato
          /\ srv.genCalls[n].catImg = FetchedCat

\* both tasks have stored their image and returned, and the generator was
\* called with the two images
C12_Witness ==
    /\ srv.pc = "encode" /\ Len(srv.genCalls) = 1
    /\ srv.genCalls[1].potatoImg = FetchedPotato
    /\ srv.genCalls[1].catImg = FetchedCat
    /\ srv.writers.potatoImg = <<"potato">> /\ srv.writers.catImg = <<"cat">>

\* C13: once invoked with two non-nil images Generate runs to completion: it
\* can take its next step in every state (it never waits for anything), it
\* never panics, and it reaches its return after exactly TotalFrames loop
\* iterations with the complete animation, whether or not the context of the
\* surrounding request has ended meanwhile.
C13_RunsToCompletion ==
    /\ []((BothImages(gen) /\ Running(gen)) => ENABLED GenRun)
    /\ [](BothImages(gen) => gen.pc # "panic")
    /\ []((BothImages(gen) /\ gen.pc = "done") =>
              /\ gen.iterations = TotalFrames
              /\ gen.result.err = ""
              /\ CompleteAnimation(gen.result.anim))
    /\ []((BothImages(gen) /\ gen.pc = "validate") =>
              <>(gen.pc = "done" /\ gen.iterations = TotalFrames))

\* the request's context ended while Generate was running, and Generate
\* returned its complete animation all the same
C13_Witness ==
    /\ gen.pc = "done" /\ BothImages(gen) /\ srv.ctxDone
    /\ gen.iterations = TotalFrames
    /\ gen.result.err = "" /\ Len(gen.result.anim.Image) = TotalFrames

\* C14: the request's deadline covers the generator call as well as the
\* fetches: a request whose context ends before the generation has finished
\* (during the fetches, or while the generator runs) does not end with a
\* 200 GIF response.
C14_TimeoutCoversGenerate ==
    (srv.pc = "done" /\ srv.ctxDoneAt \in {"fetching", "generate"}) =>
        ~(srv.resp.status = StatusOK /\ srv.resp.kind = "gif")

\* the URL u is one of the hard-coded fallback list
IsFallbackURL(u) == \E k \in 1..Len(fallbackURLs) : fallbackURLs[k] = u

\* C15: SearchRandom under a context that is live (neither cancelled nor
\* expired when it returns, hence at no moment of the call) never returns
\* an error: it returns a non-empty URL with a nil error, and when the
\* Reddit fetch has failed, for whatever reason, that URL is one of the
\* fallback list.
C15_FallbackOnFailure ==
    (reddit.returned /\ reddit.ctxErr = "") =>
        /\ reddit.err = ""
        /\ reddit.url # <<>>
        /\ reddit.fetchErr # "" => (reddit.fallback /\ IsFallbackURL(reddit.url))

C15_Witness ==
    /\ reddit.returned /\ reddit.ctxErr = ""
    /\ reddit.fetchErr = "reddit returned status 500"
    /\ reddit.err = "" /\ reddit.fallback
    /\ reddit.url = fallbackURLs[Len(fallbackURLs)]

\* C16: SearchRandom propagates the end of its context instead of falling
\* back: with a context already cancelled (or expired) at entry it returns
\* the empty URL and exactly the context's error without making any HTTP
\* request, and when the fetch has failed and the context is cancelled or
\* expired it returns the empty URL and the context's error, never a
\* fallback URL.
C16_PropagatesContext ==
    /\ (reddit.returned /\ reddit.ctxErrAtEntry # "") =>
          /\ reddit.url = <<>>
          /\ reddit.err = reddit.ctxErrAtEntry
          /\ reddit.requests = 0
    /\ (reddit.returned /\ reddit.fetchErr # "" /\ reddit.ctxErr # "") =>
          /\ reddit.url = <<>>
          /\ reddit.err = reddit.ctxErr
          /\ ~reddit.fallback

\* the context was live at entry and ended before the failed fetch was
\* looked at
C16_Witness ==
    /\ reddit.returned /\ reddit.ctxErrAtEntry = ""
    /\ reddit.requests = 1 /\ reddit.fetchErr # ""
    /\ reddit.ctxErr = "context canceled"
    /\ reddit.err = "context canceled" /\ reddit.url = <<>>

\* the extensions of an image URL
ImageExtensions ==
    { <<".", "j", "p", "g">>, <<".", "j", "p", "e", "g">>,
      <<".", "p", "n", "g">>, <<".", "g", "i", "f">> }

\* the post passes the four filters at once
PassesAllFilters(post) ==
    /\ post.PostHint = "image"
    /\ post.IsVideo = FALSE
    /\ post.Over18 = FALSE
    /\ \E ext \in ImageExtensions :
          /\ Len(post.URL) >= Len(ext)
          /\ \A j \in 1..Len(ext) :
                toLower(post.URL)[Len(post.URL) - Len(ext) + j] = ext[j]

\* C17: when the listing fetch succeeds, a URL SearchRandom returns from it
\* is the URL of a post of the listing that passes the four filters at
\* once (post_hint "image", not a video, not over_18, an image extension in
\* any letter case); it returns one whenever the listing has such a post,
\* and a listing without one leads to the fallback (under a live context).
C17_FiltersPosts ==
    (reddit.returned /\ reddit.listed) =>
        /\ (reddit.err = "" /\ ~reddit.fallback) =>
              \E n \in 1..Len(reddit.children) :
                  /\ reddit.children[n].URL = reddit.url
                  /\ PassesAllFilters(reddit.children[n])
        /\ (\E n \in 1..Len(reddit.children) : PassesAllFilters(reddit.children[n]))
              => (reddit.err = "" /\ ~reddit.fallback)
        /\ ((\A n \in 1..Len(reddit.children) : ~PassesAllFilters(reddit.children[n]))
              /\ reddit.ctxErr = "")
              => (reddit.fallback /\ IsFallbackURL(reddit.url))

\* a post that fails a filter comes first, the post returned is the one
\* with the upper-case extension
C17_Witness ==
    /\ reddit.returned /\ reddit.listed /\ Len(reddit.children) = MaxPosts
    /\ reddit.children[1].Over18
    /\ reddit.children[MaxPosts].URL = <<"b", ".", "J", "P", "E", "G">>
    /\ reddit.url = <<"b", ".", "J", "P", "E", "G">>
    /\ reddit.err = ""

\* Generate run from the state g to its return with nothing else running;
\* k is the index its ticker draw gives
RECURSIVE RunFrame(_)
RunFrame(g) ==
    IF g.pc \in {"draw", "quantize"} THEN RunFrame(GenStep(g, 0)) ELSE g

RECURSIVE RunAlone(_, _)
RunAlone(g, k) ==
    IF Running(g) THEN RunAlone(RunFrame(GenStep(g, k)), k) ELSE g

\* the index of the ticker message the invocation g drew
TickerIndexOf(g) ==
    CHOOSE k \in 0..(Len(tickerMessages) - 1) : tickerMessages[k + 1] = g.tickerMsg

\* C18: Generate invocations running side by side on one MemeGenerator are
\* independent: in every interleaving of their steps the font and the two
\* input images stay as they were, every invocation still holds the images
\* it was given, the animation an invocation is building holds the frames
\* that invocation has appended and no others, and each invocation that has
\* returned has returned exactly what it returns when it runs alone on the
\* same arguments: the complete animation of TotalFrames frames, with a nil
\* error.
C18_Independent ==
    /\ conc.font = IdleConc.font
    /\ conc.potatoImg = IdleConc.potatoImg /\ conc.catImg = IdleConc.catImg
    /\ \A id \in Invocations :
          /\ conc.inv[id].pc # "idle" =>
                /\ conc.inv[id].potatoImg = conc.potatoImg
                /\ conc.inv[id].catImg = conc.catImg
          /\ conc.inv[id].pc # "panic"
          /\ conc.inv[id].pc \in {"loop", "draw", "quantize"} =>
                /\ Len(conc.inv[id].anim.Image) = conc.inv[id].i
                /\ Len(conc.inv[id].anim.Delay) = conc.inv[id].i
          /\ conc.inv[id].pc = "done" =>
                /\ conc.inv[id].result.err = ""
                /\ CompleteAnimation(conc.inv[id].result.anim)
                /\ conc.inv[id].result =
                      RunAlone(EnterGenerate(conc.potatoImg, conc.catImg,
                                             Text(ConcTexts[id][1]),
                                             Text(ConcTexts[id][2])),
                               TickerIndexOf(conc.inv[id])).result

\* one invocation has returned its animation while the other, started
\* before that, is in the middle of drawing a frame
C18_Witness ==
    /\ conc.inv[1].pc = "done" /\ conc.inv[1].result.err = ""
    /\ Len(conc.inv[1].result.anim.Image) = TotalFrames
    /\ conc.inv[2].pc = "draw" /\ conc.inv[2].i = 7
    /\ Len(conc.inv[2].dc.layers) = 4

\* the request has ended after both fetches and the generation succeeded
\* and the response writer took the whole body
SuccessfulRequest ==
    /\ srv.pc = "done" /\ FetchesSucceeded /\ GenerationSucceeded
    /\ ~Logged("failed to encode meme as GIF")

LayerOrder ==
    << "drawZoomedBackground", "drawHypnoWheel", "drawDivineGlow",
       "DrawImage(scaledPotato)", "drawPotatoClones", "drawComicBursts",
       "drawSparkle", "drawMemeText", "drawMemeText", "drawTicker" >>

\* the drawing calls of the frame the invocation g is constructing, from
\* the parameters of its loop index
OwnLayers(g) == FrameLayers([g EXCEPT !.params = GenerateParams[g.i]])

\* C20: within every frame the layers are drawn in one fixed back-to-front
\* order on a fresh canvas: background, hypno wheel, glow, main potato,
\* clones, bursts, sparkles, top then bottom text, ticker.  What is on the
\* canvas at any moment is the beginning of that order, drawn with the
\* parameters of the frame under construction and nothing of another frame;
\* the frame is quantized only once all the layers are on it, and between
\* frames there is no canvas.
C20_LayerOrder ==
    /\ gen.pc \in {"draw", "quantize"} =>
          /\ ~gen.dc.nil
          /\ Len(gen.dc.layers) <= Len(LayerOrder)
          /\ \A n \in 1..Len(gen.dc.layers) :
                /\ gen.dc.layers[n].op = LayerOrder[n]
                /\ gen.dc.layers[n] = OwnLayers(gen)[n]
          /\ Len(gen.dc.layers) >= 8 =>
                gen.dc.layers[8].args[1] = gen.topTextUpper
          /\ Len(gen.dc.layers) >= 9 =>
                gen.dc.layers[9].args[1] = gen.bottomTextUpper
    /\ gen.pc = "draw" => Len(gen.dc.layers) < Len(LayerOrder)
    /\ gen.pc = "quantize" => Len(gen.dc.layers) = Len(LayerOrder)
    /\ gen.pc \in {"loop", "done"} => gen.dc = NoCanvas
    /\ \A k \in 1..Len(gen.anim.Image) :
          /\ Len(gen.anim.Image[k].from) = Len(LayerOrder)
          /\ \A n \in 1..Len(LayerOrder) :
                gen.anim.Image[k].from[n].op = LayerOrder[n]

\* the last frame has all its layers and is about to be quantized
C20_Witness ==
    /\ gen.pc = "quantize" /\ gen.i = TotalFrames - 1
    /\ Len(gen.dc.layers) = Len(LayerOrder)
    /\ gen.dc.layers[3].op = "drawDivineGlow"
    /\ gen.dc.layers[4].op = "DrawImage(scaledPotato)"
    /\ gen.dc.layers[10].op = "drawTicker"
    /\ gen.dc.layers[8].args[1] # gen.dc.layers[9].args[1]


(***************************************************************************)
(* The bounce, frame by frame.                                             *)
(***************************************************************************)
\* C21 as stated: for every frame index i and total frame count N, t = i/N,
\* PotatoBounceY is 0 when t = 0 and when t = 0.5, strictly negative for
\* every other t in (0,1), and never positive.
C21_BounceSign ==
    \A n \in 1..Len(calls) :
        LET c == calls[n]
        IN  ~c.result.panic =>
               /\ c.result.PotatoBounceY <= 0
               /\ (c.frame = 0 \/ 2 * c.frame = c.totalFrames)
                     => c.result.PotatoBounceY = 0
               /\ (c.frame # 0 /\ 2 * c.frame # c.totalFrames)
                     => c.result.PotatoBounceY < 0

\* C21 as amended: PotatoBounceY is never positive and is 0 when t = 0 and
\* when t = 0.5; it is strictly negative for every other t in (0,1) of an
\* animation of at most 126 frames (the program's has 16), and never below
\* -bounceHeight.  In longer animations the truncation to whole pixels makes
\* it 0 on frames next to t = 0 or t = 0.5 as well:
\* 40 * sin(pi / 127) < 1 <= 40 * sin(pi / 125).
C21_BounceTruncated ==
    \A n \in 1..Len(calls) :
        LET c == calls[n]
        IN  ~c.result.panic =>
               /\ c.result.PotatoBounceY \in (-bounceHeight)..0
               /\ (c.frame = 0 \/ 2 * c.frame = c.totalFrames)
                     => c.result.PotatoBounceY = 0
               /\ (/\ c.frame # 0 /\ 2 * c.frame # c.totalFrames
                   /\ c.totalFrames <= 126)
                     => c.result.PotatoBounceY < 0

C21_Witness ==
    /\ Len(calls) = 1
    /\ calls[1].totalFrames = TotalFrames
    /\ calls[1].frame = 12
    /\ calls[1].result.PotatoBounceY = -bounceHeight


(***************************************************************************)
(* The comic bursts.                                                       *)
(***************************************************************************)
\* the bursts that drawComicBursts drew on finished frame k (from 0)
BurstsDrawn(k) == gen.anim.Image[k + 1].from[6].args

\* burst slot s of frame k was drawn on that frame
SlotDrawn(k, s) ==
    \E n \in 1..Len(BurstsDrawn(k)) :
        BurstsDrawn(k)[n] = GenerateParams[k].Bursts[s + 1]

\* C22: every frame has exactly 2 bursts, slot s (0 or 1) of frame i with
\* Visible = ((i + s) mod 3 # 0), so each slot is visible, and drawn, in
\* exactly 2 of any 3 consecutive frames; drawComicBursts draws exactly the
\* bursts whose Visible flag is true, in slot order.
C22_BurstVisibility ==
    Len(gen.anim.Image) >= 1 =>
       LET k == Len(gen.anim.Image) - 1
           b == GenerateParams[k].Bursts
       IN  /\ Len(b) = 2
           /\ \A s \in 0..1 : b[s + 1].Visible = ((k + s) % 3 # 0)
           /\ gen.anim.Image[k + 1].from[6].op = "drawComicBursts"
           /\ BurstsDrawn(k) =
                 (IF (k % 3) # 0 THEN <<b[1]>> ELSE <<>>)
                    \o (IF ((k + 1) % 3) # 0 THEN <<b[2]>> ELSE <<>>)
           /\ k >= 2 =>
                 \A s \in 0..1 :
                    /\ Cardinality({j \in (k - 2)..k :
                                       GenerateParams[j].Bursts[s + 1].Visible}) = 2
                    /\ Cardinality({j \in (k - 2)..k : SlotDrawn(j, s)}) = 2

\* the whole animation is built: frame 0 shows slot 1 only, frame 2 slot 0
\* only, frame 1 both
C22_Witness ==
    /\ gen.pc = "done" /\ Len(gen.anim.Image) = TotalFrames
    /\ Len(BurstsDrawn(0)) = 1 /\ SlotDrawn(0, 1) /\ ~GenerateParams[0].Bursts[1].Visible
    /\ Len(BurstsDrawn(1)) = 2
    /\ Len(BurstsDrawn(2)) = 1 /\ SlotDrawn(2, 0)


(***************************************************************************)
(* The glow.                                                               *)
(***************************************************************************)
\* the circles are filled in order of decreasing radius, each with the alpha
\* 0.8 * alpha * (1 - r / radius), which is linear in r and falls toward the
\* edge
GlowFades(c) ==
    /\ \A n \in 1..Len(c.result) :
          /\ c.result[n].cx2 = c.cx2 /\ c.result[n].cy2 = c.cy2
          /\ c.radius > 0 =>
                c.result[n].ringAlpha =
                   RoundDiv(8 * c.alpha * (rings * c.radius - c.result[n].r12),
                            rings * 10 * c.radius)
    /\ \A n \in 1..(Len(c.result) - 1) :
          /\ c.result[n].r12 >= c.result[n + 1].r12
          /\ c.radius > 0 => c.result[n].r12 > c.result[n + 1].r12
          /\ c.result[n].ringAlpha < c.result[n + 1].ringAlpha

\* C23 as stated: drawDivineGlow fills concentric circles in order of
\* decreasing radius, the first drawn circle having the full glow radius and
\* the last having radius zero, each ring's alpha a linear function of its
\* radius that fades toward the edge.
C23_GlowFullRadius ==
    \A n \in 1..Len(calls) :
        LET c == calls[n]
        IN  (c.fn = "drawDivineGlow" /\ c.result # <<>>) =>
               /\ GlowFades(c)
               /\ c.result[1].r12 = rings * c.radius
               /\ c.result[Len(c.result)].r12 = 0

\* C23 as amended: drawDivineGlow goes through the rings from the full glow
\* radius down to radius zero and fills those whose alpha is at least 0.01,
\* in order of decreasing radius.  The ring of the full radius has alpha 0
\* and is never filled: the first filled circle has at most 11/12 of the
\* glow radius, and exactly 11/12 when the glow alpha is 0.16 or more, as
\* every GlowAlpha of ComputeFrameParams is.  The last filled circle has
\* radius zero, and each ring's alpha is a linear function of its radius
\* that fades toward the edge.
C23_GlowRings ==
    \A n \in 1..Len(calls) :
        LET c == calls[n]
        IN  c.fn = "drawDivineGlow" =>
               /\ GlowFades(c)
               /\ Len(c.result) <= rings
               /\ \A m \in 1..Len(c.result) :
                     /\ c.result[m].r12 <= (rings - 1) * c.radius
                     /\ c.result[m].ringAlpha >= FP \div 100
               /\ c.result # <<>> => c.result[Len(c.result)].r12 = 0
               /\ c.alpha >= 16 * (FP \div 100) =>
                     /\ Len(c.result) = rings
                     /\ c.result[1].r12 = (rings - 1) * c.radius
               /\ c.alpha * 8 < FP \div 10 => c.result = <<>>

\* a glow of the program's base radius and alpha: twelve circles, from 110
\* pixels down to 0
C23_Witness ==
    /\ Len(calls) = 1 /\ calls[1].fn = "drawDivineGlow"
    /\ calls[1].radius = 120 /\ calls[1].alpha = 4 * (FP \div 10)
    /\ Len(calls[1].result) = rings
    /\ calls[1].result[1].r12 = 110 * rings
    /\ calls[1].result[rings].r12 = 0
    /\ calls[1].result[rings].ringAlpha = 32 * (FP \div 100)


(***************************************************************************)
(* The ticker.                                                             *)
(***************************************************************************)
\* the drawTicker call of finished frame k (from 0)
TickerOf(k) == gen.anim.Image[k + 1].from[10]

\* the two DrawStringAnchored calls of a drawTicker call
TickerStrings(layer) ==
    SelectSeq(layer.draws, LAMBDA d : d.op = "DrawStringAnchored")

\* C24: TickerX is the canvas width at frame 0 and is 40 pixels less on
\* every next frame, with no wrap; in every frame drawTicker draws the one
\* message chosen for the animation twice, at TickerX and at TickerX + the
\* width of the message + 100.
C24_Ticker ==
    Len(gen.anim.Image) >= 1 =>
       LET k == Len(gen.anim.Image) - 1
           t == TickerOf(k)
           strs == TickerStrings(t)
       IN  /\ t.op = "drawTicker"
           /\ t.args[1] = gen.tickerMsg
           /\ \E n \in 1..Len(tickerMessages) : tickerMessages[n] = gen.tickerMsg
           /\ k = 0 => t.args[2] = canvasWidth
           /\ k >= 1 => /\ t.args[2] = TickerOf(k - 1).args[2] - 40
                        /\ t.args[1] = TickerOf(k - 1).args[1]
           /\ t.args[2] = GenerateParams[k].TickerX
           /\ Len(strs) = 2
           /\ strs[1].args[1] = gen.tickerMsg /\ strs[2].args[1] = gen.tickerMsg
           /\ strs[1].args[2] = t.args[2]
           /\ strs[2].args[2] = t.args[2] + MeasureString(gen.tickerMsg) + 100
           /\ strs[1].args[3] = strs[2].args[3]

\* the animation is complete: the ticker went from 640 to 40 with the last
\* of the messages
C24_Witness ==
    /\ gen.pc = "done" /\ Len(gen.anim.Image) = TotalFrames
    /\ gen.tickerMsg = tickerMessages[Len(tickerMessages)]
    /\ TickerOf(0).args[2] = canvasWidth
    /\ TickerOf(TotalFrames - 1).args[2] = canvasWidth - 40 * (TotalFrames - 1)
    /\ TickerStrings(TickerOf(TotalFrames - 1))[2].args[2] > canvasWidth


(***************************************************************************)
(* The shake and the sparkles.                                             *)
(***************************************************************************)
\* C25: for every frame, ComputeFrameParams returns ShakeDX and ShakeDY as
\* integers in [-3, 3] and between 6 and 8 sparkles, each with
\* 0 <= X < canvasW, 0 <= Y < canvasH and Size in [4, 11].
C25_ShakeSparkleRanges ==
    \A n \in 1..Len(calls) :
        LET c == calls[n]
        IN  ~c.result.panic =>
               /\ c.result.ShakeDX \in -3..3
               /\ c.result.ShakeDY \in -3..3
               /\ Len(c.result.Sparkles) \in 6..8
               /\ \A k \in 1..Len(c.result.Sparkles) :
                     /\ c.result.Sparkles[k].X \in 0..(c.canvasW - 1)
                     /\ c.result.Sparkles[k].Y \in 0..(c.canvasH - 1)
                     /\ c.result.Sparkles[k].Size \in 4..11

\* frame 11 on the smallest canvas: the shake at its left edge, eight
\* sparkles, one of the largest size
C25_Witness ==
    /\ Len(calls) = 1 /\ ~calls[1].result.panic
    /\ calls[1].frame = 11 /\ calls[1].canvasW = 161 /\ calls[1].canvasH = 201
    /\ calls[1].result.ShakeDX = -3
    /\ Len(calls[1].result.Sparkles) = 8
    /\ \E k \in 1..8 : calls[1].result.Sparkles[k].Size = 11
    /\ \A k \in 1..8 : calls[1].result.Sparkles[k].X < 161


(***************************************************************************)
(* scaleHeight and drawStarburst.                                          *)
(***************************************************************************)
\* C26: scaleHeight(src, targetW) is targetW * srcH / srcW cut down to a
\* whole number for every source of positive width (400x200 at target
\* width 200 gives 100), and targetW for a source of width 0.
C26_ScaleHeight ==
    \A n \in 1..Len(calls) :
        LET c == calls[n]
        IN  c.fn = "scaleHeight" =>
               /\ c.src.w > 0 =>
                     /\ c.result * c.src.w <= c.targetW * c.src.h
                     /\ c.targetW * c.src.h < (c.result + 1) * c.src.w
               /\ c.src.w = 0 => c.result = c.targetW
               /\ (c.src = Img(400, 200) /\ c.targetW = 200) => c.result = 100

\* a 3x7 source at target width 200: 466 and two thirds, cut to 466
C26_Witness ==
    /\ Len(calls) = 1 /\ calls[1].fn = "scaleHeight"
    /\ calls[1].src = Img(3, 7) /\ calls[1].targetW = 200
    /\ calls[1].result = 466

\* the vertices of a traced path: its MoveTo and LineTo points
Vertices(path) == SelectSeq(path, LAMBDA o : o.op \in {"MoveTo", "LineTo"})

\* C27: drawStarburst with a point count p traces exactly 2*p vertices,
\* vertex i at the angle rotation + i*pi/p with the outer radius for even i
\* and the inner radius for odd i; the path starts at vertex 0 and is closed
\* back to vertex 0 (p = 10 gives 20 vertices).
C27_Starburst ==
    \A n \in 1..Len(calls) :
        LET c == calls[n]
            v == Vertices(c.result)
        IN  c.fn = "drawStarburst" =>
               /\ Len(v) = 2 * c.points
               /\ c.points = 10 => Len(v) = 20
               /\ \A k \in 1..Len(v) :
                     LET i == k - 1
                         r == IF i % 2 = 0 THEN c.outerR ELSE c.innerR
                     IN  /\ c.result[k] = v[k]
                         /\ v[k].op = (IF i = 0 THEN "MoveTo" ELSE "LineTo")
                         /\ v[k].x = c.cx * FP + StarCos(r, i, c.points, c.rotation)
                         /\ v[k].y = c.cy * FP + StarSin(r, i, c.points, c.rotation)
               /\ c.points >= 1 =>
                     /\ Len(c.result) = 2 * c.points + 1
                     /\ c.result[Len(c.result)].op = "ClosePath"
                     /\ c.result[Len(c.result)].x = v[1].x
                     /\ c.result[Len(c.result)].y = v[1].y

\* the star of a burst of scale 1.0: 20 vertices, the first 45 pixels to
\* the right of the centre, the second on the inner radius, the path closed
C27_Witness ==
    /\ Len(calls) = 1 /\ calls[1].fn = "drawStarburst"
    /\ calls[1].points = 10 /\ calls[1].rotation = <<0, 1>>
    /\ calls[1].outerR = 45 /\ calls[1].innerR = 22
    /\ calls[1].cx = 320 /\ calls[1].cy = 240
    /\ Len(Vertices(calls[1].result)) = 20
    /\ calls[1].result[1] = [op |-> "MoveTo", x |-> 365 * FP, y |-> 240 * FP]
    /\ calls[1].result[11].x = 275 * FP
    /\ calls[1].result[2].x < 342 * FP /\ calls[1].result[2].y > 240 * FP
    /\ calls[1].result[21] = [op |-> "ClosePath", x |-> 365 * FP, y |-> 240 * FP]


(***************************************************************************)
(* The order of the nil checks.                                            *)
(***************************************************************************)
\* C28: with both images nil Generate reports "potato image is required":
\* the potato check comes first, so "cat image is required" is returned
\* only when the potato image is non-nil (and the cat image nil).
C28_PotatoCheckedFirst ==
    (gen.pc = "done" /\ gen.result.returned) =>
        /\ (gen.potatoImg.nil /\ gen.catImg.nil) =>
              gen.result.err = "potato image is required"
        /\ gen.result.err = "cat image is required" =>
              (~gen.potatoImg.nil /\ gen.catImg.nil)
        /\ gen.result.err = "potato image is required" => gen.potatoImg.nil

\* Generate has returned from a call with both images nil
C28_Witness ==
    /\ gen.pc = "done" /\ gen.result.returned
    /\ gen.potatoImg.nil /\ gen.catImg.nil
    /\ gen.result.err = "potato image is required"
    /\ gen.result.anim.nil


(***************************************************************************)
(* The response of a request.                                              *)
(***************************************************************************)
\* the request's response so far: no status before the handler writes one,
\* writeError called at most once, and an error response exactly when it
\* was called
OneResponse ==
    /\ srv.writeErrors \in {0, 1}
    /\ srv.resp.status \in {0, StatusOK, StatusInternalServerError, StatusBadGateway}
    /\ srv.writeErrors = 1 <=>
          srv.resp.status \in {StatusInternalServerError, StatusBadGateway}
    /\ srv.writeErrors = 1 =>
          /\ srv.pc = "done"
          /\ srv.resp.contentType = "application/json" /\ srv.resp.kind = "json"
    /\ srv.pc = "done" => srv.resp.status # 0
    /\ srv.resp.contentType = "image/gif" =>
          /\ srv.resp.status = StatusOK /\ srv.writeErrors = 0
          /\ srv.resp.error = ""
    /\ Logged("failed to encode meme as GIF") =>
          /\ srv.resp.status = StatusOK /\ srv.resp.contentType = "image/gif"
          /\ srv.writeErrors = 0 /\ srv.resp.kind # "json"

\* C29: every request handled by handleMeme ends with exactly one response
\* status, one of 502, 500 and 200: writeError is called at most once per
\* request, a status once written stays until the handler returns, and once
\* the image/gif Content-Type is set an encoding failure is only logged and
\* produces no error response.
C29_OneStatus ==
    /\ []OneResponse
    /\ [][srv.resp.status # 0 =>
            (srv'.resp.status = srv.resp.status \/ srv' = IdleSrv)]_vars
    /\ [][srv.writeErrors = 1 =>
            (srv'.writeErrors = 1 \/ srv' = IdleSrv)]_vars

\* the encoding failed after the Content-Type was set: the failure is in
\* the log and the response is still the 200
C29_Witness ==
    /\ srv.pc = "done"
    /\ Logged("failed to encode meme as GIF")
    /\ srv.resp.status = StatusOK /\ srv.resp.contentType = "image/gif"
    /\ srv.writeErrors = 0


(***************************************************************************)
(* The error of the group.                                                 *)
(***************************************************************************)
\* a task has returned an error
TaskFailed == srv.perr # "" \/ srv.cerr # ""

\* once a task has failed the group's context is done and the group holds
\* an error of a task; nothing is written before both tasks have returned,
\* and the 502 carries the group's error
GroupCancelled ==
    /\ TaskFailed =>
          /\ srv.gctxDone
          /\ srv.groupErr \in {srv.perr, srv.cerr} /\ srv.groupErr # ""
    /\ ~TaskFailed => srv.groupErr = ""
    /\ (srv.resp.status # 0 \/ srv.writeErrors > 0) =>
          (srv.ptask = "returned" /\ srv.ctask = "returned")
    /\ (srv.pc = "done" /\ TaskFailed) =>
          /\ srv.resp.status = StatusBadGateway
          /\ srv.resp.error = srv.groupErr
    /\ srv.resp.status = StatusBadGateway => TaskFailed

\* C30: when one of the two fetch tasks fails, the group context shared
\* with the other task is cancelled; the handler still waits until both
\* tasks have returned before it writes its response; and the 502 carries
\* the error of the task that failed first: the error the first failing
\* task returns becomes the group's, and no later failure replaces it.
C30_FirstError ==
    /\ []GroupCancelled
    /\ [][(~TaskFailed /\ srv'.perr # "") => srv'.groupErr = srv'.perr]_vars
    /\ [][(~TaskFailed /\ srv'.cerr # "") => srv'.groupErr = srv'.cerr]_vars
    /\ [][srv.groupErr # "" =>
            (srv'.groupErr = srv.groupErr \/ srv' = IdleSrv)]_vars

\* the cat task failed first, the potato search then ended with the
\* cancelled context's error, and the 502 carries the cat task's error
C30_Witness ==
    /\ srv.pc = "done" /\ ~srv.ctxDone
    /\ srv.firstFailed = "cat"
    /\ srv.cerr = "fetching cat image: cataas is down"
    /\ srv.perr = "searching for potato image: context canceled"
    /\ srv.resp.status = StatusBadGateway
    /\ srv.resp.error = srv.cerr

=============================================================================
